---- MODULE Spec2Model ----
(***************************************************************************)
(* Voting ledger of sitiooficial/Proyecto_Blockchain.                      *)
(*                                                                         *)
(*   backend/server.js   in-memory DATABASE, synchronous ledger operations *)
(*                       dispatched by handleAction, snapshot persistence  *)
(*                       through saveDatabase, the /import route and the   *)
(*                       EIP-712 /verify-signature route.                  *)
(*   backend/backend.js  JSON-file database, one async POST /api handler   *)
(*                       that interleaves with other requests at every     *)
(*                       await (readDB, writeDB).                          *)
(*                                                                         *)
(* Strings are sequences of one-character strings, so that toLowerCase,    *)
(* trim, parseInt and the wallet regular expression are computed as the    *)
(* code computes them.  Timestamps, uuid hashes and free-text fields that  *)
(* no operation reads back are left out of the records.                    *)
(***************************************************************************)
EXTENDS Integers, Sequences, FiniteSets, TLC

VARIABLES
    DATABASE,   \* server.js: the in-memory database (let DATABASE)
    pending,    \* server.js: snapshots handed to fs.writeFile, not yet settled
    disk,       \* server.js: content of data/database.json
    result,     \* server.js: the response of the last call
    served,     \* server.js: number of calls served since the process started
    file,       \* backend.js: content of DATA_FILE
    reqs,       \* backend.js: the POST /api requests and where each one stands
    lastCall,   \* backend.js: antiSpam's lastCall table
    now,        \* backend.js: Date.now()
    sheets      \* backend.js: the Google Sheets collaborator and its unanswered calls

serverVars == <<DATABASE, pending, disk, result, served>>
backendVars == <<file, reqs, lastCall, now, sheets>>
vars == <<DATABASE, pending, disk, result, served, file, reqs, lastCall, now>>

----------------------------------------------------------------------------
(* Bounds of the model.                                                    *)

\* calls served by one run of the server
MaxCalls == 2
\* POST /api requests received by backend.js
MaxReqs == 2
\* Date.now() stops advancing once it has passed this many milliseconds
MaxTime == 1600
\* largest vote count a stale cache of a candidate or an election holds
MaxCached == 1

(* Program constants.                                                      *)

AddrHexLen == 40
LIMIT_MS == 800

----------------------------------------------------------------------------
(* JavaScript values and string functions.                                 *)

Rep(c, n) == [i \in 1..n |-> c]

Str(s) == [t |-> "string", s |-> s]
Undefined == [t |-> "undefined", s |-> <<>>]
\* a truthy non-string value (the number 7); s is its ToString
Num7 == [t |-> "number", s |-> <<"7">>]

\* v || ''
OrEmpty(v) == IF v.t = "undefined" \/ (v.t = "string" /\ v.s = <<>>) THEN Str(<<>>) ELSE v

LowerChar(c) ==
    CASE c = "A" -> "a" [] c = "B" -> "b" [] c = "G" -> "g" [] c = "X" -> "x"
      [] OTHER -> c

toLowerCase(s) == [i \in 1..Len(s) |-> LowerChar(s[i])]

IsSpace(c) == c = " "

RECURSIVE TrimStart(_)
TrimStart(s) ==
    IF s = <<>> THEN s
    ELSE IF IsSpace(Head(s)) THEN TrimStart(Tail(s)) ELSE s

RECURSIVE TrimEnd(_)
TrimEnd(s) ==
    IF s = <<>> THEN s
    ELSE IF IsSpace(s[Len(s)]) THEN TrimEnd(SubSeq(s, 1, Len(s) - 1)) ELSE s

trim(s) == TrimEnd(TrimStart(s))

Digits == {"0", "1", "2", "3", "4", "5", "6", "7", "8", "9"}
HexChars == Digits \cup {"a", "b", "c", "d", "e", "f", "A", "B", "C", "D", "E", "F"}

DigitVal(c) ==
    CASE c = "0" -> 0 [] c = "1" -> 1 [] c = "2" -> 2 [] c = "3" -> 3 [] c = "4" -> 4
      [] c = "5" -> 5 [] c = "6" -> 6 [] c = "7" -> 7 [] c = "8" -> 8 [] c = "9" -> 9

\* value of the longest prefix of digits of s, continuing from acc
RECURSIVE DigitsPrefix(_, _)
DigitsPrefix(s, acc) ==
    IF s = <<>> \/ Head(s) \notin Digits THEN acc
    ELSE DigitsPrefix(Tail(s), 10 * acc + DigitVal(Head(s)))

NaN == [nan |-> TRUE, n |-> 0]

\* parseInt(v): ToString, skip leading white space, an optional sign, then digits
parseInt(v) ==
    LET s == IF v.t = "undefined" THEN <<"u">> ELSE TrimStart(v.s)
        neg == s # <<>> /\ Head(s) = "-"
        body == IF neg THEN Tail(s) ELSE s
    IN  IF body = <<>> \/ Head(body) \notin Digits THEN NaN
        ELSE [nan |-> FALSE,
              n |-> IF neg THEN 0 - DigitsPrefix(body, 0) ELSE DigitsPrefix(body, 0)]

\* !x for a parseInt result: NaN and 0 are falsy
Falsy(p) == p.nan \/ p.n = 0

\* wallet.match(/^0x[a-fA-F0-9]{40}$/)
MatchesWallet(s) ==
    /\ Len(s) = AddrHexLen + 2
    /\ s[1] = "0"
    /\ s[2] = "x"
    /\ \A i \in 3..Len(s) : s[i] \in HexChars

----------------------------------------------------------------------------
(* server.js: configuration and request inputs.                            *)

\* process.env.ADMIN_ADDRESSES.split(','): " 0XAB," configures one admin and
\* leaves an empty entry behind the comma
ADMIN_ENV == << <<" ", "0", "X", "A", "B">>, <<>> >>

\* CONFIG.ADMIN_ADDRESSES: each entry lower-cased then trimmed
ADMIN_ADDRESSES == {trim(toLowerCase(ADMIN_ENV[i])) : i \in 1..Len(ADMIN_ENV)}

W1 == <<"0", "x">> \o Rep("a", AddrHexLen)
\* the same address written in upper case with surrounding blanks
W1Var == <<" ", "0", "X">> \o Rep("A", AddrHexLen) \o <<" ">>
W2 == <<"0", "x">> \o Rep("b", AddrHexLen)
WShort == <<"0", "x">> \o Rep("a", AddrHexLen - 1)
WBadHex == <<"0", "x">> \o Rep("g", AddrHexLen)

WalletInputs == {Str(W1), Str(W1Var), Str(W2), Str(WShort), Str(WBadHex), Undefined, Num7}
VoteWalletInputs == {Str(W1), Str(W1Var), Str(W2), Undefined, Num7}
TextInputs == {Str(<<"n">>), Str(<<" ">>), Undefined}
AdminInputs ==
    {Str(<<"0", "x", "A", "B">>), Str(<<" ", "0", "x", "A", "B">>), Str(<<"0", "x", "b">>),
     Undefined}
IdInputs == {Str(<<"1">>), Str(<<"0", "2">>), Str(<<"3">>), Str(<<"0">>), Undefined}

RegisterInputs == [walletAddress : WalletInputs, name : TextInputs, idNumber : TextInputs]
ElectionInputs == [adminAddress : AdminInputs, title : TextInputs]
CandidateInputs == [electionId : IdInputs, name : TextInputs]
VoteInputs == [walletAddress : VoteWalletInputs, electionId : IdInputs, candidateId : IdInputs]

\* err.message of the errors thrown
ErrRegisterIncomplete == "Datos incompletos: wallet, nombre y DNI son obligatorios"
ErrWalletInvalid == "Direccion de wallet invalida"
ErrVoterExists == "Votante ya registrado con esta wallet"
ErrElectionIncomplete == "Direccion de admin y titulo son obligatorios"
ErrNotAdmin == "No autorizado: direccion no es admin"
ErrCandidateIncomplete == "Election ID y nombre son obligatorios"
ErrElectionNotFound == "Eleccion no encontrada"
ErrVoteIncomplete == "Datos incompletos para registrar voto"
ErrAlreadyVoted == "El votante ya emitio su voto en esta eleccion"
ErrCandidateNotFound == "Candidato no encontrado"
ErrTypeError == "TypeError: is not a function"
ErrMissingElectionId == "Election ID es obligatorio"
ErrUnknownAction == "Accion desconocida"
ErrActionRequired == "Action es requerido"
ErrMissingSignature == "Missing typedData, signature or address"

----------------------------------------------------------------------------
(* server.js: the database and its helpers.                                *)

EmptyDatabase ==
    [voters |-> <<>>, elections |-> <<>>, candidates |-> <<>>, votes |-> <<>>,
     blockchain |-> <<>>, audit |-> <<>>, relayerLog |-> <<>>,
     stats |-> [totalVoters |-> 0, totalElections |-> 0, totalVotes |-> 0,
                totalCandidates |-> 0]]

\* mutant: numbers the block one past the length of the chain
logBlockchain_offByOne(db, action) ==
    [db EXCEPT !.blockchain =
        Append(@, [action |-> action, blockNumber |-> Len(db.blockchain) + 1])]

logBlockchain(db, action) ==
    [db EXCEPT !.blockchain =
        Append(@, [action |-> action, blockNumber |-> Len(db.blockchain)])]

\* mutant: the entry is written with a fixed status
logAudit_fixedStatus(db, action, status, error) ==
    [db EXCEPT !.audit = Append(@, [action |-> action, status |-> "success", error |-> error])]

logAudit(db, action, status, error) ==
    [db EXCEPT !.audit = Append(@, [action |-> action, status |-> status, error |-> error])]

getStats(db) ==
    [totalVoters |-> Len(db.voters), totalElections |-> Len(db.elections),
     totalVotes |-> Len(db.votes), totalCandidates |-> Len(db.candidates)]

updateStats(db) == [db EXCEPT !.stats = getStats(db)]

\* saveDatabase: JSON.stringify(DATABASE) is taken at the call; the write settles later
saveDatabase(p, db) == p \cup {db}

\* mutant: the wallet is trimmed but not lower-cased
normalizeWallet_noLower(s) == trim(s)

\* (x || '').toLowerCase().trim()
normalizeWallet(s) == trim(toLowerCase(s))

\* mutant: the search skips the first voter
existingVoter_skipFirst(db, wallet) ==
    \E i \in 2..Len(db.voters) : toLowerCase(db.voters[i].walletAddress) = wallet

\* DATABASE.voters.find(v => v.walletAddress.toLowerCase() === wallet)
existingVoter(db, wallet) ==
    \E i \in 1..Len(db.voters) : toLowerCase(db.voters[i].walletAddress) = wallet

\* mutant: the vote's candidateId is compared with the electionId
hasVoted_wrongField(db, wallet, electionId) ==
    \E i \in 1..Len(db.votes) :
        /\ toLowerCase(db.votes[i].walletAddress) = wallet
        /\ db.votes[i].candidateId = electionId

\* DATABASE.votes.some(v => v.walletAddress.toLowerCase() === wallet && v.electionId === electionId)
hasVoted(db, wallet, electionId) ==
    \E i \in 1..Len(db.votes) :
        /\ toLowerCase(db.votes[i].walletAddress) = wallet
        /\ db.votes[i].electionId = electionId

\* mutant: the candidate is looked up by candidateId alone
candidateExists_anyElection(db, electionId, candidateId) ==
    \E i \in 1..Len(db.candidates) : db.candidates[i].candidateId = candidateId

\* DATABASE.candidates.find(c => c.electionId === electionId && c.candidateId === candidateId)
candidateExists(db, electionId, candidateId) ==
    \E i \in 1..Len(db.candidates) :
        /\ db.candidates[i].electionId = electionId
        /\ db.candidates[i].candidateId = candidateId

\* DATABASE.elections.find(e => e.electionId === electionId)
electionExists(db, electionId) ==
    \E i \in 1..Len(db.elections) : db.elections[i].electionId = electionId

CountVotes(db, electionId, candidateId) ==
    Cardinality({i \in 1..Len(db.votes) :
        db.votes[i].electionId = electionId /\ db.votes[i].candidateId = candidateId})

CountElectionVotes(db, electionId) ==
    Cardinality({i \in 1..Len(db.votes) : db.votes[i].electionId = electionId})

\* mutant: the percentage is cut after two decimals
Percentage_truncated(count, totalVotes) ==
    IF totalVotes > 0
    THEN [fixed |-> TRUE, hundredths |-> (count * 10000) \div totalVotes]
    ELSE [fixed |-> FALSE, hundredths |-> 0]

\* ((count / totalVotes) * 100).toFixed(2) + '%', or '0' + '%' when there is no vote;
\* the number is kept in hundredths of a percent, fixed tells '0%' from '0.00%'
Percentage(count, totalVotes) ==
    IF totalVotes > 0
    THEN [fixed |-> TRUE, hundredths |-> (count * 20000 + totalVotes) \div (2 * totalVotes)]
    ELSE [fixed |-> FALSE, hundredths |-> 0]

\* mutant: the count is added to the cached votes
updateCandidateVotes_incremental(db, electionId) ==
    [db EXCEPT !.candidates =
        [i \in 1..Len(db.candidates) |->
            IF db.candidates[i].electionId = electionId
            THEN [db.candidates[i] EXCEPT
                    !.votes = @ + CountVotes(db, electionId, db.candidates[i].candidateId)]
            ELSE db.candidates[i]]]

updateCandidateVotes(db, electionId) ==
    LET totalVotes == CountElectionVotes(db, electionId)
        upd(c) ==
            IF c.electionId = electionId
            THEN [c EXCEPT !.votes = CountVotes(db, electionId, c.candidateId),
                           !.percentage = Percentage(CountVotes(db, electionId, c.candidateId),
                                                     totalVotes)]
            ELSE c
    IN  [db EXCEPT !.candidates = [i \in 1..Len(db.candidates) |-> upd(db.candidates[i])]]

\* mutant: the total counts the votes of every election
updateElectionTotalVotes_allVotes(db, electionId) ==
    [db EXCEPT !.elections =
        [i \in 1..Len(db.elections) |->
            IF db.elections[i].electionId = electionId
            THEN [db.elections[i] EXCEPT !.totalVotes = Len(db.votes)]
            ELSE db.elections[i]]]

updateElectionTotalVotes(db, electionId) ==
    LET totalVotes == CountElectionVotes(db, electionId)
        first == {i \in 1..Len(db.elections) :
                    /\ db.elections[i].electionId = electionId
                    /\ \A j \in 1..(i - 1) : db.elections[j].electionId # electionId}
    IN  [db EXCEPT !.elections =
            [i \in 1..Len(db.elections) |->
                IF i \in first THEN [db.elections[i] EXCEPT !.totalVotes = totalVotes]
                ELSE db.elections[i]]]

\* recordVote's recomputation: updateCandidateVotes, then updateElectionTotalVotes
updateTallies(db, electionId) ==
    updateElectionTotalVotes(updateCandidateVotes(db, electionId), electionId)

Ok(op) == [op |-> op, success |-> TRUE, error |-> ""]
Fail(op, error) == [op |-> op, success |-> FALSE, error |-> error]

----------------------------------------------------------------------------
(* server.js: the ledger operations.  Each takes the database and the      *)
(* request data and gives the database after the call, the response and    *)
(* whether saveDatabase was called.  A throw inside the try block is the   *)
(* error chosen by the first failing check; the catch block logs it.       *)

registerVoter(db, data) ==
    LET w == OrEmpty(data.walletAddress)
        nm == OrEmpty(data.name)
        idn == OrEmpty(data.idNumber)
        wallet == normalizeWallet(w.s)
        name == trim(nm.s)
        idNumber == trim(idn.s)
        err ==
            IF w.t # "string" \/ nm.t # "string" \/ idn.t # "string" THEN ErrTypeError
            ELSE IF wallet = <<>> \/ name = <<>> \/ idNumber = <<>> THEN ErrRegisterIncomplete
            ELSE IF ~MatchesWallet(wallet) THEN ErrWalletInvalid
            ELSE IF existingVoter(db, wallet) THEN ErrVoterExists
            ELSE ""
        voter == [walletAddress |-> wallet, name |-> name, idNumber |-> idNumber]
        pushed == [db EXCEPT !.voters = Append(@, voter)]
    IN  IF err = ""
        THEN [db |-> updateStats(logAudit(logBlockchain(pushed, "registerVoter"),
                                          "registerVoter", "success", "")),
              res |-> Ok("registerVoter"), saved |-> TRUE]
        ELSE [db |-> logAudit(db, "registerVoter", "error", err),
              res |-> Fail("registerVoter", err), saved |-> FALSE]

\* data[name], undefined when the request carries no such field
Field(data, name) == IF name \in DOMAIN data THEN data[name] ELSE Undefined

\* createElection's id: DATABASE.elections.length + 1
nextElectionId(db) == Len(db.elections) + 1

\* mutant: the id counts the candidates of every election
nextCandidateId_global(db, electionId) == Len(db.candidates) + 1

\* addCandidate's id: one more than the candidates the election has
nextCandidateId(db, electionId) ==
    Cardinality({i \in 1..Len(db.candidates) : db.candidates[i].electionId = electionId}) + 1

\* mutant: only the membership in the admin list is tested
electionError_membershipOnly(admin, title) ==
    IF title = <<>> THEN ErrElectionIncomplete
    ELSE IF admin \notin ADMIN_ADDRESSES THEN ErrNotAdmin
    ELSE ""

\* createElection's validations: !admin || !title, then ADMIN_ADDRESSES.includes(admin)
electionError(admin, title) ==
    IF admin = <<>> \/ title = <<>> THEN ErrElectionIncomplete
    ELSE IF admin \notin ADMIN_ADDRESSES THEN ErrNotAdmin
    ELSE ""

createElection(db, data) ==
    LET a == OrEmpty(data.adminAddress)
        ti == OrEmpty(data.title)
        admin == trim(toLowerCase(a.s))
        title == trim(ti.s)
        err ==
            IF a.t # "string" \/ ti.t # "string" THEN ErrTypeError
            ELSE electionError(admin, title)
        electionId == nextElectionId(db)
        election == [electionId |-> electionId, title |-> title,
                     startDate |-> OrEmpty(Field(data, "startDate")).s,
                     endDate |-> OrEmpty(Field(data, "endDate")).s,
                     status |-> "Activa", totalVotes |-> 0]
        pushed == [db EXCEPT !.elections = Append(@, election)]
    IN  IF err = ""
        THEN [db |-> updateStats(logAudit(logBlockchain(pushed, "createElection"),
                                          "createElection", "success", "")),
              res |-> Ok("createElection"), saved |-> TRUE]
        ELSE [db |-> logAudit(db, "createElection", "error", err),
              res |-> Fail("createElection", err), saved |-> FALSE]

addCandidate(db, data) ==
    LET eid == parseInt(data.electionId)
        nm == OrEmpty(data.name)
        name == trim(nm.s)
        err ==
            IF nm.t # "string" THEN ErrTypeError
            ELSE IF Falsy(eid) \/ name = <<>> THEN ErrCandidateIncomplete
            ELSE IF ~electionExists(db, eid.n) THEN ErrElectionNotFound
            ELSE ""
        candidateId == nextCandidateId(db, eid.n)
        candidate == [electionId |-> eid.n, candidateId |-> candidateId, name |-> name,
                      votes |-> 0, percentage |-> Percentage(0, 0)]
        pushed == [db EXCEPT !.candidates = Append(@, candidate)]
    IN  IF err = ""
        THEN [db |-> logAudit(logBlockchain(pushed, "addCandidate"),
                              "addCandidate", "success", ""),
              res |-> Ok("addCandidate"), saved |-> TRUE]
        ELSE [db |-> logAudit(db, "addCandidate", "error", err),
              res |-> Fail("addCandidate", err), saved |-> FALSE]

recordVote(db, data) ==
    LET w == OrEmpty(data.walletAddress)
        wallet == normalizeWallet(w.s)
        eid == parseInt(data.electionId)
        cid == parseInt(data.candidateId)
        err ==
            IF w.t # "string" THEN ErrTypeError
            ELSE IF wallet = <<>> \/ Falsy(eid) \/ Falsy(cid) THEN ErrVoteIncomplete
            ELSE IF hasVoted(db, wallet, eid.n) THEN ErrAlreadyVoted
            ELSE IF ~candidateExists(db, eid.n, cid.n) THEN ErrCandidateNotFound
            ELSE ""
        vote == [walletAddress |-> wallet, electionId |-> eid.n, candidateId |-> cid.n]
        pushed == [db EXCEPT !.votes = Append(@, vote)]
        counted == updateTallies(pushed, eid.n)
    IN  IF err = ""
        THEN [db |-> updateStats(logAudit(logBlockchain(counted, "castVote"),
                                          "castVote", "success", "")),
              res |-> Ok("recordVote"), saved |-> TRUE]
        ELSE [db |-> logAudit(db, "recordVote", "error", err),
              res |-> Fail("recordVote", err), saved |-> FALSE]

\* POST /verify-signature: the route's global.DATABASE is the server's DATABASE
verifySignature(db, present) ==
    IF ~present
    THEN [db |-> db, res |-> Fail("verifySignature", ErrMissingSignature), saved |-> FALSE]
    ELSE [db |-> [db EXCEPT !.blockchain =
                    Append(@, [action |-> "EIP712_SIGNATURE",
                               blockNumber |-> Len(db.blockchain)])],
          res |-> Ok("verifySignature"), saved |-> TRUE]

\* initializeSystem once loadDatabase has put the file's content (or, with no
\* file, the default structure) in DATABASE: the genesis block is pushed into an
\* empty chain, the stats are computed
initializeSystem(db) ==
    updateStats(IF Len(db.blockchain) = 0
                THEN [db EXCEPT !.blockchain =
                        Append(@, [action |-> "GENESIS", blockNumber |-> 0])]
                ELSE db)

----------------------------------------------------------------------------
(* server.js: data/database.json as earlier runs of the server left it.    *)
(* A file is the snapshot saveDatabase wrote after the last successful     *)
(* call of a run, so it is computed by running the calls of that run.      *)

apply(db, c) ==
    CASE c.op = "registerVoter" -> registerVoter(db, c.data).db
      [] c.op = "createElection" -> createElection(db, c.data).db
      [] c.op = "addCandidate" -> addCandidate(db, c.data).db
      [] c.op = "recordVote" -> recordVote(db, c.data).db

RECURSIVE run(_, _)
run(db, calls) ==
    IF calls = <<>> THEN db ELSE run(apply(db, Head(calls)), Tail(calls))

Named == Str(<<"n">>)
ByAdmin == [adminAddress |-> Str(<<"0", "x", "A", "B">>), title |-> Named]

\* one election with two candidates
EarlierRun1 ==
    << [op |-> "createElection", data |-> ByAdmin],
       [op |-> "addCandidate", data |-> [electionId |-> Str(<<"1">>), name |-> Named]],
       [op |-> "addCandidate", data |-> [electionId |-> Str(<<"1">>), name |-> Named]] >>

\* then a second election with one candidate, a registered voter and a vote
EarlierRun2 ==
    EarlierRun1 \o
    << [op |-> "createElection", data |-> ByAdmin],
       [op |-> "addCandidate", data |-> [electionId |-> Str(<<"0", "2">>), name |-> Named]],
       [op |-> "registerVoter",
        data |-> [walletAddress |-> Str(W1), name |-> Named, idNumber |-> Named]],
       [op |-> "recordVote",
        data |-> [walletAddress |-> Str(W1), electionId |-> Str(<<"1">>),
                  candidateId |-> Str(<<"0", "2">>)]] >>

\* a wallet of an earlier run that sends no request in this one
W3 == <<"0", "x">> \o Rep("c", AddrHexLen)

\* then a third candidate in the first election and a second vote there
EarlierRun3 ==
    EarlierRun2 \o
    << [op |-> "addCandidate", data |-> [electionId |-> Str(<<"1">>), name |-> Named]],
       [op |-> "recordVote",
        data |-> [walletAddress |-> Str(W3), electionId |-> Str(<<"1">>),
                  candidateId |-> Str(<<"1">>)]] >>

FreshDatabase == initializeSystem(EmptyDatabase)

\* the database of a busier earlier run
PolledDatabase == run(FreshDatabase, EarlierRun3)

\* cached values a candidate or an election may hold before a recomputation
CachedVotes == 0..MaxCached
CachedPercentages == {Percentage(0, 0), Percentage(1, 2)}

\* db with its derived fields replaced: cv and cp give each candidate's votes and
\* percentage, tv each election's totalVotes
withCaches(db, cv, cp, tv) ==
    [db EXCEPT
        !.candidates = [i \in 1..Len(db.candidates) |->
            [db.candidates[i] EXCEPT !.votes = cv[i], !.percentage = cp[i]]],
        !.elections = [i \in 1..Len(db.elections) |->
            [db.elections[i] EXCEPT !.totalVotes = tv[i]]]]

PersistedFiles == {<<>>, <<run(FreshDatabase, EarlierRun1)>>, <<run(FreshDatabase, EarlierRun2)>>}

\* getActiveElections: the elections whose status is 'Activa', by their ids
getActiveElections(db) ==
    LET active == SelectSeq(db.elections, LAMBDA e : e.status = "Activa")
    IN  [db |-> db,
         res |-> [op |-> "getActiveElections", success |-> TRUE, error |-> "",
                  elections |-> [i \in 1..Len(active) |-> active[i].electionId]],
         saved |-> FALSE]

\* dates a request gives as startDate or endDate: none, or the time they denote
Dates == {<<>>, <<"1">>, <<"3">>}

\* the times at which the elections are listed
Times == {0, 2, 4}

\* db with the windows of its elections replaced
withWindows(db, sd, ed) ==
    [db EXCEPT !.elections = [i \in 1..Len(db.elections) |->
        [db.elections[i] EXCEPT !.startDate = sd[i], !.endDate = ed[i]]]]

\* a file whose content JSON.parse rejects
Unparseable == [syntaxError |-> TRUE]

\* a file holding a JSON object without the six collections
LacksCollections == [relayerLog |-> <<>>]

Collections == {"voters", "elections", "candidates", "votes", "blockchain", "audit"}
HasCollections(db) == Collections \subseteq DOMAIN db

\* loadDatabase: DATABASE = JSON.parse(data); without a file, or when the parse
\* throws, the catch block leaves DATABASE as it is
loadDatabase(db, f) == IF f = <<>> \/ f[1] = Unparseable THEN db ELSE f[1]

\* initializeSystem as a whole: with DATABASE.blockchain undefined the genesis
\* check throws a TypeError, the catch block returns it and nothing is saved
startSystem(db, f) ==
    LET loaded == loadDatabase(db, f)
    IN  IF HasCollections(loaded)
        THEN [db |-> initializeSystem(loaded), res |-> Ok("init"), saved |-> TRUE]
        ELSE [db |-> loaded, res |-> Fail("init", ErrTypeError), saved |-> FALSE]

\* the candidates of an election as getCandidates and getResults list them
Listed(db, electionId) ==
    LET cs == SelectSeq(db.candidates, LAMBDA c : c.electionId = electionId)
    IN  [i \in 1..Len(cs) |-> [name |-> cs[i].name, votes |-> cs[i].votes,
                               percentage |-> cs[i].percentage.hundredths]]

getCandidates(db, data) ==
    LET eid == parseInt(data.electionId)
    IN  [db |-> db,
         res |-> IF Falsy(eid) THEN Fail("getCandidates", ErrMissingElectionId)
                 ELSE [op |-> "getCandidates", success |-> TRUE, error |-> "",
                       candidates |-> Listed(db, eid.n)],
         saved |-> FALSE]

\* Array.prototype.sort with (a, b) => b.votes - a.votes: descending, and stable,
\* so that an element goes behind those already placed with as many votes
insertByVotes(sorted, c) ==
    LET k == Cardinality({i \in 1..Len(sorted) : sorted[i].votes >= c.votes})
    IN  SubSeq(sorted, 1, k) \o <<c>> \o SubSeq(sorted, k + 1, Len(sorted))

RECURSIVE sortByVotes(_)
sortByVotes(s) ==
    IF s = <<>> THEN <<>>
    ELSE insertByVotes(sortByVotes(SubSeq(s, 1, Len(s) - 1)), s[Len(s)])

getResults(db, data) ==
    LET eid == parseInt(data.electionId)
        err == IF Falsy(eid) THEN ErrMissingElectionId
               ELSE IF ~electionExists(db, eid.n) THEN ErrElectionNotFound
               ELSE ""
    IN  [db |-> db,
         res |-> IF err # "" THEN Fail("getResults", err)
                 ELSE [op |-> "getResults", success |-> TRUE, error |-> "",
                       candidates |-> sortByVotes(Listed(db, eid.n))],
         saved |-> FALSE]

\* mutant: getStats stores what it has counted and saves
statsAction_storing(db) ==
    [db |-> updateStats(db),
     res |-> [op |-> "getStats", success |-> TRUE, error |-> "", stats |-> getStats(db)],
     saved |-> TRUE]

\* getStats as handleAction calls it: { success: true, stats }
statsAction(db) ==
    [db |-> db,
     res |-> [op |-> "getStats", success |-> TRUE, error |-> "", stats |-> getStats(db)],
     saved |-> FALSE]

\* what res.json sends for a value that has no success property: nothing for
\* undefined, '{}' for an object without own enumerable properties
Serialised(op, json) == [op |-> op, json |-> json]

\* logRelayer: the entry is pushed and saved, nothing is returned; without
\* DATABASE.relayerLog the TypeError is logged by the catch block
logRelayer(db, data) ==
    IF "relayerLog" \in DOMAIN db
    THEN [db |-> [db EXCEPT !.relayerLog =
                    Append(@, [action |-> "logRelayer",
                               status |-> OrEmpty(Field(data, "status")).s])],
          res |-> Serialised("logRelayer", ""), saved |-> TRUE]
    ELSE [db |-> db, res |-> Serialised("logRelayer", ""), saved |-> FALSE]

\* the keys of handleAction's table that read a collection of DATABASE
CollectionActions ==
    {"registerVoter", "createElection", "addCandidate", "recordVote", "castVote",
     "getActiveElections", "getCandidates", "getResults", "getStats"}

\* names the table inherits from Object.prototype: actions[action] is a function
InheritedKeys == {"constructor"}

\* handleAction's table, 'init' apart; actions.constructor() returns a new empty
\* object, any other name throws
handleAction(db, action, data) ==
    CASE action = "registerVoter" -> registerVoter(db, data)
      [] action = "createElection" -> createElection(db, data)
      [] action = "addCandidate" -> addCandidate(db, data)
      [] action \in {"recordVote", "castVote"} -> recordVote(db, data)
      [] action = "getActiveElections" -> getActiveElections(db)
      [] action = "getCandidates" -> getCandidates(db, data)
      [] action = "getResults" -> getResults(db, data)
      [] action = "getStats" -> statsAction(db)
      [] action = "logRelayer" -> logRelayer(db, data)
      [] action \in InheritedKeys ->
            [db |-> db, res |-> Serialised(action, "{}"), saved |-> FALSE]
      [] OTHER -> [db |-> db, res |-> Fail(action, ErrUnknownAction), saved |-> FALSE]

\* the errors thrown after a collection of DATABASE has been read
LookupErrors == {ErrVoterExists, ErrElectionNotFound, ErrAlreadyVoted, ErrCandidateNotFound}

\* a call on a DATABASE without collections: the checks of the request data run
\* as usual, the first access to a collection throws a TypeError, logAudit in
\* the catch block swallows its own TypeError
dispatch(db, action, data) ==
    IF HasCollections(db) \/ action \notin CollectionActions
    THEN handleAction(db, action, data)
    ELSE LET r == handleAction(EmptyDatabase, action, data).res
         IN  [db |-> db,
              res |-> IF r.success \/ r.error \in LookupErrors
                      THEN Fail(action, ErrTypeError) ELSE r,
              saved |-> FALSE]

\* the route pushes into global.DATABASE.blockchain: a TypeError without it
signatureRoute(db, present) ==
    IF HasCollections(db) \/ ~present THEN verifySignature(db, present)
    ELSE [db |-> db, res |-> Fail("verifySignature", ErrTypeError), saved |-> FALSE]

\* the files a start of the server can find besides those of earlier runs
StartFiles == {<<>>, <<Unparseable>>, <<LacksCollections>>}

----------------------------------------------------------------------------
(* server.js: the state machine.                                           *)

\* startServer: initializeSystem has loaded the file and awaited its own save
InitServer ==
    /\ \E f \in PersistedFiles :
        /\ DATABASE = initializeSystem(loadDatabase(EmptyDatabase, f))
        /\ disk = <<initializeSystem(loadDatabase(EmptyDatabase, f))>>
    /\ pending = {}
    /\ result = Ok("init")
    /\ served = 0

\* one call: the database after it, its response, the snapshot handed to the write
Call(r) ==
    /\ served < MaxCalls
    /\ served' = served + 1
    /\ DATABASE' = r.db
    /\ result' = r.res
    /\ pending' = IF r.saved THEN saveDatabase(pending, r.db) ELSE pending
    /\ UNCHANGED disk
    /\ UNCHANGED backendVars

RegisterVoter == \E data \in RegisterInputs : Call(dispatch(DATABASE, "registerVoter", data))

CreateElection == \E data \in ElectionInputs : Call(dispatch(DATABASE, "createElection", data))

AddCandidate == \E data \in CandidateInputs : Call(dispatch(DATABASE, "addCandidate", data))

RecordVote == \E data \in VoteInputs : Call(dispatch(DATABASE, "recordVote", data))

VerifySignature == \E present \in BOOLEAN : Call(signatureRoute(DATABASE, present))

\* handleAction 'init' on the running server: loadDatabase replaces DATABASE by the
\* file's content, then the genesis check, updateStats and saveDatabase
InitAction == Call(startSystem(DATABASE, disk))

\* a dataset whose only election is numbered 2: its ids are distinct, not dense
SparseDatabase ==
    updateStats([FreshDatabase EXCEPT !.elections =
        <<[electionId |-> 2, title |-> <<"n">>, startDate |-> <<>>, endDate |-> <<>>,
           status |-> "Activa", totalVotes |-> 0]>>])

\* bodies posted to /import: an empty database, the export of an earlier run, or
\* a dataset put together elsewhere
ImportBodies == {EmptyDatabase, SparseDatabase} \cup {f[1] : f \in PersistedFiles \ {<<>>}}

\* POST /import: DATABASE = req.body; saveDatabase()
ImportRoute ==
    \E body \in ImportBodies : Call([db |-> body, res |-> Ok("import"), saved |-> TRUE])

\* a write started by saveDatabase settles: the snapshot becomes the file
WriteDone ==
    /\ \E s \in pending :
        /\ disk' = <<s>>
        /\ pending' = pending \ {s}
    /\ UNCHANGED <<DATABASE, result, served>>
    /\ UNCHANGED backendVars

\* mutant: the failed write restores DATABASE from the file
onWriteError_rollback(db, f) == IF f = <<>> THEN db ELSE f[1]

\* saveDatabase's catch block: console.error, DATABASE is not touched
onWriteError(db, f) == db

\* a write fails: saveDatabase logs the error, the file stays as it was
WriteFailed ==
    /\ \E s \in pending : pending' = pending \ {s}
    /\ DATABASE' = onWriteError(DATABASE, disk)
    /\ UNCHANGED <<result, served, disk>>
    /\ UNCHANGED backendVars

----------------------------------------------------------------------------
(* backend.js: the JSON-file database and the POST /api handler.           *)

DEFAULT_DB ==
    [voters |-> <<>>, elections |-> <<>>, candidates |-> <<>>, votes |-> <<>>,
     sysActivity |-> <<>>]

\* String(n) of a non-negative integer
DigitChar(d) ==
    CASE d = 0 -> "0" [] d = 1 -> "1" [] d = 2 -> "2" [] d = 3 -> "3" [] d = 4 -> "4"
      [] d = 5 -> "5" [] d = 6 -> "6" [] d = 7 -> "7" [] d = 8 -> "8" [] d = 9 -> "9"

RECURSIVE NumToString(_)
NumToString(n) ==
    IF n < 10 THEN <<DigitChar(n)>>
    ELSE NumToString(n \div 10) \o <<DigitChar(n % 10)>>

\* Number(v) of a request field holding a string of digits
Number(v) == DigitsPrefix(v.s, 0)

\* !v of a request field
Missing(v) == v.t = "undefined" \/ (v.t = "string" /\ v.s = <<>>)

MaxOf(S) == CHOOSE m \in S : \A x \in S : x <= m

\* mutant: the greatest id in use is given again
nextId_greatest(ids) ==
    IF Len(ids) = 0 THEN 1
    ELSE MaxOf({ids[i] : i \in 1..Len(ids)})

\* nextId(collection, keyName), given the collection's values of keyName
nextId(ids) ==
    IF Len(ids) = 0 THEN 1
    ELSE MaxOf({ids[i] : i \in 1..Len(ids)}) + 1

FirstIdx(S) == CHOOSE i \in S : \A j \in S : i <= j

BActions == {"registerVoter", "createElection", "addCandidate", "castVote", "getResults"}

BWallets == {Str(<<"0", "x", "a">>), Str(<<"0", "X", "A">>), Str(<<"0", "x", "b">>), Undefined}
BIds == {Str(<<"1">>), Undefined}

\* the fields of req.body the four mutating actions read
BBodies ==
    [action : {"registerVoter"}, walletAddress : BWallets, electionId : {Undefined},
     candidateId : {Undefined}, name : {Named}, idNumber : {Named, Undefined}]
    \cup [action : {"createElection"}, walletAddress : {Undefined}, electionId : {Undefined},
          candidateId : {Undefined}, name : {Undefined}, idNumber : {Undefined}]
    \cup [action : {"addCandidate"}, walletAddress : {Undefined}, electionId : BIds,
          candidateId : {Undefined}, name : {Named}, idNumber : {Undefined}]
    \cup [action : {"castVote"}, walletAddress : BWallets, electionId : BIds,
          candidateId : {Str(<<"1">>)}, name : {Undefined}, idNumber : {Undefined}]
    \cup [action : {"getResults"}, walletAddress : {Undefined},
          electionId : BIds \cup {Str(<<"2">>)},
          candidateId : {Undefined}, name : {Undefined}, idNumber : {Undefined}]

NoBody ==
    [action |-> "", walletAddress |-> Undefined, electionId |-> Undefined,
     candidateId |-> Undefined, name |-> Undefined, idNumber |-> Undefined]

NoRes == [status |-> 0, success |-> FALSE, error |-> "", record |-> <<>>]
Json(success, error, record) ==
    [status |-> 200, success |-> success, error |-> error, record |-> record]

\* the handler from the resolution of readDB to its first writeDB or its response:
\* db is the copy the request works on, next is where the request stands
handleRegisterVoter(db, body) ==
    LET walletLower == toLowerCase(body.walletAddress.s)
        voter == [VoterID |-> nextId([i \in 1..Len(db.voters) |-> db.voters[i].VoterID]),
                  Wallet |-> body.walletAddress.s]
    IN  IF Missing(body.walletAddress) \/ Missing(body.name) \/ Missing(body.idNumber)
        THEN [db |-> db, next |-> "done", res |-> Json(FALSE, "Campos incompletos", <<>>)]
        ELSE IF \E i \in 1..Len(db.voters) : toLowerCase(db.voters[i].Wallet) = walletLower
        THEN [db |-> db, next |-> "done", res |-> Json(FALSE, "Wallet ya registrada", <<>>)]
        ELSE [db |-> [db EXCEPT !.voters = Append(@, voter)], next |-> "writeDB",
              res |-> Json(TRUE, "", <<voter>>)]

handleCreateElection(db, body) ==
    LET e == [ElectionID |-> nextId([i \in 1..Len(db.elections) |-> db.elections[i].ElectionID]),
              TotalVotes |-> 0]
    IN  [db |-> [db EXCEPT !.elections = Append(@, e)], next |-> "writeDB",
         res |-> Json(TRUE, "", <<e>>)]

handleAddCandidate(db, body) ==
    LET c == [CandidateID |->
                  nextId([i \in 1..Len(db.candidates) |-> db.candidates[i].CandidateID]),
              ElectionID |-> Number(body.electionId), Votes |-> 0]
    IN  IF Missing(body.electionId) \/ Missing(body.name)
        THEN [db |-> db, next |-> "done",
              res |-> Json(FALSE, "electionId y name requeridos", <<>>)]
        ELSE [db |-> [db EXCEPT !.candidates = Append(@, c)], next |-> "writeDB",
              res |-> Json(TRUE, "", <<c>>)]

\* castVote's db.votes.find: a vote of this wallet, lower-cased, in this election
alreadyVoted(db, body) ==
    \E i \in 1..Len(db.votes) :
        /\ toLowerCase(db.votes[i].Wallet) = toLowerCase(body.walletAddress.s)
        /\ NumToString(db.votes[i].ElectionID) = body.electionId.s

handleCastVote(db, body) ==
    LET vote == [VoteID |-> nextId([i \in 1..Len(db.votes) |-> db.votes[i].VoteID]),
                 Wallet |-> body.walletAddress.s,
                 ElectionID |-> Number(body.electionId),
                 CandidateID |-> Number(body.candidateId)]
        cands == {i \in 1..Len(db.candidates) :
                    NumToString(db.candidates[i].CandidateID) = body.candidateId.s}
        elects == {i \in 1..Len(db.elections) :
                    NumToString(db.elections[i].ElectionID) = body.electionId.s}
        counted ==
            [db EXCEPT
                !.votes = Append(@, vote),
                !.candidates = [i \in 1..Len(db.candidates) |->
                    IF cands # {} /\ i = FirstIdx(cands)
                    THEN [db.candidates[i] EXCEPT !.Votes = @ + 1]
                    ELSE db.candidates[i]],
                !.elections = [i \in 1..Len(db.elections) |->
                    IF elects # {} /\ i = FirstIdx(elects)
                    THEN [db.elections[i] EXCEPT !.TotalVotes = @ + 1]
                    ELSE db.elections[i]]]
    IN  IF Missing(body.walletAddress) \/ Missing(body.electionId) \/ Missing(body.candidateId)
        THEN [db |-> db, next |-> "done", res |-> Json(FALSE, "Faltan datos", <<>>)]
        ELSE IF alreadyVoted(db, body)
        THEN [db |-> db, next |-> "done", res |-> Json(FALSE, "Ya voto", <<>>)]
        ELSE [db |-> counted, next |-> "writeDB", res |-> Json(TRUE, "", <<vote>>)]

\* getResults: the election's candidates as db.candidates.filter gives them;
\* CandidateID stands for the candidate's name
handleGetResults(db, body) ==
    LET ofElection(c) == NumToString(c.ElectionID) = body.electionId.s
        summary(c) == [name |-> c.CandidateID, votes |-> c.Votes]
        candidates == SelectSeq(db.candidates, ofElection)
    IN  IF Missing(body.electionId)
        THEN [db |-> db, next |-> "done", res |-> Json(FALSE, "electionId required", <<>>)]
        ELSE IF ~\E i \in 1..Len(db.elections) :
                    NumToString(db.elections[i].ElectionID) = body.electionId.s
        THEN [db |-> db, next |-> "done", res |-> Json(FALSE, "Election not found", <<>>)]
        ELSE [db |-> db, next |-> "done",
              res |-> Json(TRUE, "", [i \in 1..Len(candidates) |-> summary(candidates[i])])]

\* getChartData, type 'participation': TotalVotes / votersCount * 100 of every
\* election as the exact fraction num / den, 0 when there is no voter
participation(db, e) ==
    LET votersCount == Len(db.voters)
    IN  IF votersCount # 0
        THEN [num |-> e.TotalVotes * 100, den |-> votersCount]
        ELSE [num |-> 0, den |-> 1]

getChartDataParticipation(db) ==
    [i \in 1..Len(db.elections) |->
        [electionId |-> db.elections[i].ElectionID,
         participation |-> participation(db, db.elections[i])]]

\* actions no branch of the handler names: none at all, and a name every object
\* inherits a property for
UnsupportedActions == {"", "__proto__"}

handle(db, body) ==
    CASE body.action = "registerVoter" -> handleRegisterVoter(db, body)
      [] body.action = "createElection" -> handleCreateElection(db, body)
      [] body.action = "addCandidate" -> handleAddCandidate(db, body)
      [] body.action = "castVote" -> handleCastVote(db, body)
      [] body.action = "getResults" -> handleGetResults(db, body)
      [] body.action \in UnsupportedActions ->
            [db |-> db, next |-> "done", res |-> Json(FALSE, "Accion no soportada", <<>>)]

\* castVote between its two writeDB calls: the activity entry is pushed
recordActivity(db) == [db EXCEPT !.sysActivity = Append(@, [type |-> "vote"])]

\* the file after one request handled alone, from readDB to the response
served1(db, body) ==
    LET h == handle(db, body)
    IN  IF h.next = "writeDB" /\ body.action = "castVote" THEN recordActivity(h.db) ELSE h.db

RECURSIVE servedAll(_, _)
servedAll(db, bodies) ==
    IF bodies = <<>> THEN db ELSE servedAll(served1(db, Head(bodies)), Tail(bodies))

\* requests of an earlier day: an election, two candidates, a vote for the second
EarlierRequests ==
    << [NoBody EXCEPT !.action = "createElection"],
       [NoBody EXCEPT !.action = "addCandidate", !.electionId = Str(<<"1">>), !.name = Named],
       [NoBody EXCEPT !.action = "addCandidate", !.electionId = Str(<<"1">>), !.name = Named],
       [NoBody EXCEPT !.action = "castVote", !.walletAddress = Str(<<"0", "x", "c">>),
                      !.electionId = Str(<<"1">>), !.candidateId = Str(<<"2">>)] >>

PolledFile == servedAll(DEFAULT_DB, EarlierRequests)

ReqIds == 1..MaxReqs

\* sheetsAPI is null (no credentials or no GOOGLE_SHEET_ID): every call returns at once
NoSheets == [mode |-> "absent", unanswered |-> 0, rows |-> 0]

\* appendToSheet called n times: nothing without sheetsAPI, else n calls are sent
appendToSheet(sh, n) ==
    IF sh.mode = "absent" THEN sh ELSE [sh EXCEPT !.unanswered = @ + n]

\* lastCall[action] = now, reached only by an accepted request with an action;
\* an assignment of a number to lastCall.__proto__ changes nothing
recordCall(lc, action, t, accepted) ==
    IF ~accepted \/ action \in UnsupportedActions THEN lc ELSE [lc EXCEPT ![action] = t]

\* antiSpam at the time t with the table lc: !action is accepted at once;
\* lastCall.__proto__ is Object.prototype, t minus it is NaN and NaN < LIMIT_MS
\* is false; else a recorded time less than LIMIT_MS before t refuses
antiSpamAt(lc, action, t) ==
    IF action = "" THEN TRUE
    ELSE IF action = "__proto__" THEN TRUE
    ELSE ~(lc[action] # 0 /\ t - lc[action] < LIMIT_MS)

\* antiSpam(action): FALSE when the action was accepted less than LIMIT_MS ago
antiSpam(action) == antiSpamAt(lastCall, action, now)

\* a request arrives: antiSpam answers 429 or records the time and calls readDB
ArriveFrom(r, Bodies) ==
    /\ reqs[r].pc = "new"
    /\ \E body \in Bodies :
        IF antiSpam(body.action)
        THEN /\ lastCall' = [lastCall EXCEPT ![body.action] = now]
             /\ reqs' = [reqs EXCEPT ![r] = [@ EXCEPT !.pc = "readDB", !.body = body]]
        ELSE /\ lastCall' = lastCall
             /\ reqs' = [reqs EXCEPT ![r] =
                    [@ EXCEPT !.pc = "done", !.body = body,
                              !.res = [status |-> 429, success |-> FALSE,
                                       error |-> "Too many requests", record |-> <<>>]]]
    /\ UNCHANGED <<file, now, sheets>>
    /\ UNCHANGED serverVars

Arrive(r) == ArriveFrom(r, BBodies)

\* await readDB() resolves with the file's content; the handler runs to its next await
ReadDB(r) ==
    /\ reqs[r].pc = "readDB"
    /\ LET h == handle(file, reqs[r].body)
       IN  reqs' = [reqs EXCEPT ![r] = [@ EXCEPT !.pc = h.next, !.db = h.db, !.res = h.res]]
    /\ UNCHANGED <<file, lastCall, now, sheets>>
    /\ UNCHANGED serverVars

\* await writeDB(db) resolves: the request's copy is the file; castVote goes on to
\* its second write, the other actions respond
WriteDB(r) ==
    /\ reqs[r].pc = "writeDB"
    /\ file' = reqs[r].db
    /\ reqs' = [reqs EXCEPT ![r] =
            IF reqs[r].body.action = "castVote"
            THEN [@ EXCEPT !.pc = "writeDB2", !.db = recordActivity(@)]
            ELSE [@ EXCEPT !.pc = "done"]]
    /\ UNCHANGED <<lastCall, now, sheets>>
    /\ UNCHANGED serverVars

\* castVote's second writeDB resolves and the request responds
WriteDB2(r) ==
    /\ reqs[r].pc = "writeDB2"
    /\ file' = reqs[r].db
    /\ reqs' = [reqs EXCEPT ![r] = [@ EXCEPT !.pc = "done"]]
    /\ UNCHANGED <<lastCall, now, sheets>>
    /\ UNCHANGED serverVars

\* time passes
Tick ==
    /\ now < MaxTime
    /\ \E dt \in {LIMIT_MS - 1, LIMIT_MS} : now' = now + dt
    /\ UNCHANGED <<file, reqs, lastCall, sheets>>
    /\ UNCHANGED serverVars

----------------------------------------------------------------------------
(* The specifications.                                                     *)

InitBackendIdle ==
    /\ file = DEFAULT_DB
    /\ reqs = [r \in ReqIds |-> [pc |-> "done", body |-> NoBody, db |-> DEFAULT_DB,
                                 res |-> NoRes]]
    /\ lastCall = [a \in BActions |-> 0]
    /\ now = 1
    /\ sheets = NoSheets

\* the server has started: ensureDB has written DEFAULT_DB into an absent file
InitBackend ==
    /\ file = DEFAULT_DB
    /\ reqs = [r \in ReqIds |-> [pc |-> "new", body |-> NoBody, db |-> DEFAULT_DB,
                                 res |-> NoRes]]
    /\ lastCall = [a \in BActions |-> 0]
    /\ now = 1
    /\ sheets = NoSheets

InitServerIdle ==
    /\ DATABASE = FreshDatabase
    /\ disk = <<FreshDatabase>>
    /\ pending = {}
    /\ result = Ok("init")
    /\ served = MaxCalls

\* server.js, the ledger operations and the signature route
Init == InitServer /\ InitBackendIdle

Next == RegisterVoter \/ CreateElection \/ AddCandidate \/ RecordVote \/ VerifySignature

Spec == Init /\ [][Next]_vars

\* server.js, every route, with the writes of saveDatabase settling
NextService == Next \/ InitAction \/ ImportRoute \/ WriteDone \/ WriteFailed

SpecService == Init /\ [][NextService]_vars

\* server.js, the ledger operations with the writes of saveDatabase settling, in
\* any order, and none of them failing
NextWrites == Next \/ WriteDone

SpecWrites == Init /\ [][NextWrites]_vars

\* server.js, the ledger operations and the 'init' action, the writes settling
NextReinit == Next \/ InitAction \/ WriteDone

SpecReinit == Init /\ [][NextReinit]_vars

\* server.js started on an absent or damaged data file
InitStart ==
    /\ \E f \in StartFiles :
        LET s == startSystem(EmptyDatabase, f)
        IN  /\ DATABASE = s.db
            /\ result = s.res
            /\ disk = IF s.saved THEN <<s.db>> ELSE f
    /\ pending = {}
    /\ served = 0
    /\ InitBackendIdle

SpecStart == InitStart /\ [][Next]_vars

\* server.js started on the file of the busier earlier run
InitPoll ==
    /\ DATABASE = initializeSystem(loadDatabase(EmptyDatabase, <<PolledDatabase>>))
    /\ disk = <<initializeSystem(loadDatabase(EmptyDatabase, <<PolledDatabase>>))>>
    /\ pending = {}
    /\ result = Ok("init")
    /\ served = 0
    /\ InitBackendIdle

SpecPoll == InitPoll /\ [][Next]_vars

\* the methods /api is served under
Methods == {"GET", "POST"}

\* the /api routes: a request without action is answered by the route; 'init'
\* is the async initializeSystem, which POST awaits while GET hands the pending
\* promise to res.json; what handleAction throws is answered with success false
api(db, f, method, action, data) ==
    IF action = ""
    THEN [db |-> db,
          res |-> IF method = "GET" THEN Ok("") ELSE Fail("", ErrActionRequired),
          saved |-> FALSE]
    ELSE IF action = "init"
    THEN [startSystem(db, f) EXCEPT
            !.res = IF method = "GET" THEN Serialised("init", "{}") ELSE @]
    ELSE dispatch(db, action, data)

ReadInputs == [electionId : IdInputs]

RelayerInputs == {[status |-> Str(<<"n">>)], [from |-> Str(<<"n">>)]}

UnknownActions == {"vote"} \cup InheritedKeys

ApiNoAction == \E m \in Methods : Call(api(DATABASE, disk, m, "", <<>>))

ApiInit == \E m \in Methods : Call(api(DATABASE, disk, m, "init", <<>>))

ApiRegisterVoter ==
    \E m \in Methods, data \in RegisterInputs :
        Call(api(DATABASE, disk, m, "registerVoter", data))

ApiCreateElection ==
    \E m \in Methods, data \in ElectionInputs :
        Call(api(DATABASE, disk, m, "createElection", data))

ApiAddCandidate ==
    \E m \in Methods, data \in CandidateInputs :
        Call(api(DATABASE, disk, m, "addCandidate", data))

ApiRecordVote ==
    \E m \in Methods, a \in {"recordVote", "castVote"}, data \in VoteInputs :
        Call(api(DATABASE, disk, m, a, data))

ApiGetActiveElections ==
    \E m \in Methods : Call(api(DATABASE, disk, m, "getActiveElections", <<>>))

ApiGetCandidates ==
    \E m \in Methods, data \in ReadInputs :
        Call(api(DATABASE, disk, m, "getCandidates", data))

ApiGetResults ==
    \E m \in Methods, data \in ReadInputs :
        Call(api(DATABASE, disk, m, "getResults", data))

ApiGetStats == \E m \in Methods : Call(api(DATABASE, disk, m, "getStats", <<>>))

ApiLogRelayer ==
    \E m \in Methods, data \in RelayerInputs :
        Call(api(DATABASE, disk, m, "logRelayer", data))

ApiUnknown ==
    \E m \in Methods, a \in UnknownActions : Call(api(DATABASE, disk, m, a, <<>>))

NextApi ==
    \/ ApiNoAction \/ ApiInit
    \/ ApiRegisterVoter \/ ApiCreateElection \/ ApiAddCandidate \/ ApiRecordVote
    \/ ApiGetActiveElections \/ ApiGetCandidates \/ ApiGetResults \/ ApiGetStats
    \/ ApiLogRelayer \/ ApiUnknown
    \/ WriteDone

SpecApi == Init /\ [][NextApi]_vars

\* server.js after a poll, the read actions among the ledger operations
NextReads ==
    \/ Next
    \/ ApiGetActiveElections \/ ApiGetCandidates \/ ApiGetResults \/ ApiGetStats

SpecReads == InitPoll /\ [][NextReads]_vars

\* backend.js, requests handled one at a time: a request is answered before the
\* next one arrives

\* encodings of an election id in a request: "01" converts to the number 1
SIds == {Str(<<"1">>), Str(<<"0", "1">>), Str(<<"2">>), Undefined}

SBodies ==
    [action : {"registerVoter"}, walletAddress : BWallets, electionId : {Undefined},
     candidateId : {Undefined}, name : {Named, Undefined}, idNumber : {Named}]
    \cup [action : {"createElection"}, walletAddress : {Undefined}, electionId : {Undefined},
          candidateId : {Undefined}, name : {Undefined}, idNumber : {Undefined}]
    \cup [action : {"addCandidate"}, walletAddress : {Undefined}, electionId : SIds,
          candidateId : {Undefined}, name : {Named, Undefined}, idNumber : {Undefined}]
    \cup [action : {"castVote"}, walletAddress : {Str(<<"0", "x", "a">>), Str(<<"0", "X", "A">>)},
          electionId : SIds, candidateId : {Str(<<"1">>), Str(<<"2">>)},
          name : {Undefined}, idNumber : {Undefined}]
    \cup [action : {"getResults"}, walletAddress : {Undefined}, electionId : {Str(<<"1">>)},
          candidateId : {Undefined}, name : {Undefined}, idNumber : {Undefined}]

\* the answer of antiSpam's refusal
TooMany == [status |-> 429, success |-> FALSE, error |-> "Too many requests", record |-> <<>>]

\* appendToSheet calls of one request: logger.action on arrival; logger.warn on a
\* refusal; the record's row and logger.success after writeDB; castVote's activity row
Appends(body, next) ==
    IF next = "refused" THEN 2
    ELSE IF next # "writeDB" THEN 1
    ELSE IF body.action = "castVote" THEN 4 ELSE 3

\* mutant: the handler awaits appendToSheet before it answers
respond_awaitingSheets(res, sh) ==
    IF sh.mode = "stalled" /\ sh.unanswered > 0 THEN NoRes ELSE res

\* res.json(...): appendToSheet(...).catch(()=>{}) is not awaited, the answer is
\* sent whatever becomes of the calls
respond(res, sh) == res

\* one request from its arrival to its answer, the next one arriving dt later
Serve(Bodies) ==
    /\ served < MaxCalls
    /\ served' = served + 1
    /\ \E body \in Bodies, dt \in {LIMIT_MS - 1, LIMIT_MS} :
        /\ now' = now + dt
        /\ IF antiSpam(body.action)
           THEN LET h == handle(file, body)
                    sh == appendToSheet(sheets, Appends(body, h.next))
                IN  /\ lastCall' = [lastCall EXCEPT ![body.action] = now]
                    /\ file' = served1(file, body)
                    /\ sheets' = sh
                    /\ reqs' = [reqs EXCEPT ![1] =
                            [pc |-> "done", body |-> body, db |-> served1(file, body),
                             res |-> respond(h.res, sh)]]
           ELSE /\ lastCall' = lastCall
                /\ file' = file
                /\ sheets' = appendToSheet(sheets, Appends(body, "refused"))
                /\ reqs' = [reqs EXCEPT ![1] =
                        [pc |-> "done", body |-> body, db |-> file, res |-> TooMany]]
    /\ UNCHANGED <<DATABASE, pending, disk, result>>

ServeAlone == Serve(SBodies)

\* the server idle, the file empty or as earlier requests left it
InitAlone ==
    /\ DATABASE = FreshDatabase
    /\ disk = <<FreshDatabase>>
    /\ pending = {}
    /\ result = Ok("init")
    /\ served = 0
    /\ file \in {DEFAULT_DB, PolledFile}
    /\ reqs = [r \in ReqIds |-> [pc |-> "done", body |-> NoBody, db |-> DEFAULT_DB,
                                 res |-> NoRes]]
    /\ lastCall = [a \in BActions |-> 0]
    /\ now = 1
    /\ sheets = NoSheets

SpecAlone == InitAlone /\ [][ServeAlone]_vars

\* backend.js, the file operations of readDB and writeDB taken one by one.
\* fs.writeJson opens DATA_FILE for writing, which empties it, and writes the text
\* afterwards; fs.readJson in between reads a text JSON.parse rejects

\* DATA_FILE opened for writing and not yet written
Truncated == [text |-> "empty"]

\* DATA_FILE holding the text of one write over the text of another
Garbled == [text |-> "garbled"]

Parses(f) == f \notin {Truncated, Garbled}

TornBodies ==
    {b \in BBodies :
        /\ b.walletAddress \in {Str(<<"0", "x", "a">>), Undefined}
        /\ b.electionId \in {Str(<<"1">>), Undefined}
        /\ b.idNumber \in {Named, Undefined}
        /\ (b.action = "registerVoter" => b.idNumber = Named /\ b.walletAddress # Undefined)
        /\ (b.action \in {"addCandidate", "castVote", "getResults"} =>
                b.electionId # Undefined /\ (b.action = "castVote" => b.walletAddress # Undefined))}

ArriveTorn(r) == ArriveFrom(r, TornBodies)

\* readDB's ensureDB: readJson of a file that does not parse throws, and the catch
\* block writes DEFAULT_DB over it; a file that parses has its five arrays
EnsureDB(r) ==
    /\ reqs[r].pc = "readDB"
    /\ file' = IF Parses(file) THEN file ELSE DEFAULT_DB
    /\ reqs' = [reqs EXCEPT ![r] = [@ EXCEPT !.pc = "readJson"]]
    /\ UNCHANGED <<lastCall, now, sheets>>
    /\ UNCHANGED serverVars

\* readDB's own fs.readJson: the handler runs on what it parsed to its next await;
\* when it throws, the catch block of the route answers with the error
ReadJson(r) ==
    /\ reqs[r].pc = "readJson"
    /\ IF Parses(file)
       THEN LET h == handle(file, reqs[r].body)
            IN  reqs' = [reqs EXCEPT ![r] = [@ EXCEPT !.pc = h.next, !.db = h.db,
                                                     !.res = h.res]]
       ELSE reqs' = [reqs EXCEPT ![r] =
                [@ EXCEPT !.pc = "done", !.res = Json(FALSE, "Unexpected end of JSON input", <<>>)]]
    /\ UNCHANGED <<file, lastCall, now, sheets>>
    /\ UNCHANGED serverVars

\* writeDB opens the file: it is empty until the text is written
BeginWrite(r) ==
    /\ reqs[r].pc \in {"writeDB", "writeDB2"}
    /\ file' = Truncated
    /\ reqs' = [reqs EXCEPT ![r] =
            [@ EXCEPT !.pc = IF reqs[r].pc = "writeDB" THEN "writing" ELSE "writing2"]]
    /\ UNCHANGED <<lastCall, now, sheets>>
    /\ UNCHANGED serverVars

\* what the file holds once the text is written: the request's copy; when another
\* write has opened or written the file meanwhile, also that write's text, if it
\* came later, or a mix of the two
Written(f, db) == IF f = Truncated THEN {db} ELSE {db, f, Garbled}

\* writeDB resolves; castVote goes on to its second write, the others respond
EndWrite(r) ==
    /\ reqs[r].pc \in {"writing", "writing2"}
    /\ file' \in Written(file, reqs[r].db)
    /\ reqs' = [reqs EXCEPT ![r] =
            IF reqs[r].pc = "writing" /\ reqs[r].body.action = "castVote"
            THEN [@ EXCEPT !.pc = "writeDB2", !.db = recordActivity(@)]
            ELSE [@ EXCEPT !.pc = "done"]]
    /\ UNCHANGED <<lastCall, now, sheets>>
    /\ UNCHANGED serverVars

NextTorn ==
    \/ \E r \in ReqIds :
            ArriveTorn(r) \/ EnsureDB(r) \/ ReadJson(r) \/ BeginWrite(r) \/ EndWrite(r)
    \/ Tick

\* backend.js with the Google Sheets collaborator absent, answering, failing or
\* never answering
SheetModes == {"absent", "ok", "failing", "stalled"}

MutatingActions == {"registerVoter", "createElection", "addCandidate", "castVote"}

SheetBodies == {b \in BBodies : b.action \in MutatingActions}

ServeMutation == Serve(SheetBodies)

\* a call of appendToSheet is answered: the row is appended, or the error is
\* logged by appendToSheet's catch block
SheetAnswers ==
    /\ sheets.mode \in {"ok", "failing"}
    /\ sheets.unanswered > 0
    /\ sheets' = [sheets EXCEPT !.unanswered = @ - 1,
                                !.rows = IF sheets.mode = "ok" THEN @ + 1 ELSE @]
    /\ UNCHANGED <<file, reqs, lastCall, now>>
    /\ UNCHANGED serverVars

InitSheets ==
    /\ DATABASE = FreshDatabase
    /\ disk = <<FreshDatabase>>
    /\ pending = {}
    /\ result = Ok("init")
    /\ served = 0
    /\ file \in {DEFAULT_DB, PolledFile}
    /\ reqs = [r \in ReqIds |-> [pc |-> "done", body |-> NoBody, db |-> DEFAULT_DB,
                                 res |-> NoRes]]
    /\ lastCall = [a \in BActions |-> 0]
    /\ now = 1
    /\ sheets \in [mode : SheetModes, unanswered : {0}, rows : {0}]

NextSheets == ServeMutation \/ SheetAnswers

SpecSheets == InitSheets /\ [][NextSheets]_vars

\* backend.js, the activity chart: castVote stamps its sysActivity entry with the
\* time of the request, getChartData counts the entries by minute

MinuteMs == 60000
BucketCount == 60
HourMs == 60 * MinuteMs
DayMs == 24 * HourMs

\* n.toString().padStart(2, '0')
padStart2(n) == IF n < 10 THEN <<"0">> \o NumToString(n) ELSE NumToString(n)

\* the label of a time: getHours() and getMinutes(), padded, joined by ':'
\* (the clock of a zone without daylight saving)
minuteLabel(t) ==
    padStart2((t \div HourMs) % 24) \o <<":">> \o padStart2((t \div MinuteMs) % 60)

\* castVote's activity entry: { time: new Date().toISOString(), type: 'vote' }
recordActivityAt(db, t) ==
    [db EXCEPT !.sysActivity = Append(@, [type |-> "vote", time |-> t])]

\* buckets[label] = 0 for the 60 labels, oldest first: a label assigned again
\* keeps its first place among the keys
bucketLabels(t) ==
    LET all == [i \in 1..BucketCount |-> minuteLabel(t - (BucketCount - i) * MinuteMs)]
        first(i) == \A j \in 1..(i - 1) : all[j] # all[i]
        keep == {i \in 1..BucketCount : first(i)}
        nth(k) == CHOOSE i \in keep : Cardinality({j \in keep : j < i}) = k - 1
    IN  [k \in 1..Cardinality(keep) |-> all[nth(k)]]

\* if (label in buckets) buckets[label] += 1, over db.sysActivity
activityCount(db, t, label) ==
    Cardinality({k \in 1..Len(db.sysActivity) :
        /\ "time" \in DOMAIN db.sysActivity[k]
        /\ minuteLabel(db.sysActivity[k].time) = label})

\* getChartData, type 'activityPerMinute': labels and data, paired
activityPerMinute(db, t) ==
    LET labels == bucketLabels(t)
    IN  [i \in 1..Len(labels) |->
            [label |-> labels[i], count |-> activityCount(db, t, labels[i])]]

ChartBody == [NoBody EXCEPT !.action = "getChartData"]

ActivityBodies ==
    [action : {"castVote"}, walletAddress : {Str(<<"0", "x", "a">>), Str(<<"0", "x", "b">>)},
     electionId : {Str(<<"1">>), Str(<<"2">>)}, candidateId : {Str(<<"1">>)},
     name : {Undefined}, idNumber : {Undefined}]
    \cup {ChartBody}

\* the time between two requests: seconds, minutes, an hour, a day
Pauses == {MinuteMs \div 2, MinuteMs, HourMs - MinuteMs, HourMs, DayMs - HourMs, DayMs}

\* one request, answered before the next one arrives after the pause dt
ServeActivity ==
    /\ served < MaxCalls
    /\ served' = served + 1
    /\ \E body \in ActivityBodies, dt \in Pauses :
        /\ now' = now + dt
        /\ lastCall' = [lastCall EXCEPT ![body.action] = now']
        /\ IF body.action = "getChartData"
           THEN /\ file' = file
                /\ reqs' = [reqs EXCEPT ![1] =
                        [pc |-> "done", body |-> body, db |-> file,
                         res |-> Json(TRUE, "", activityPerMinute(file, now'))]]
           ELSE LET h == handle(file, body)
                    db == IF h.next = "writeDB" THEN recordActivityAt(h.db, now') ELSE h.db
                IN  /\ file' = db
                    /\ reqs' = [reqs EXCEPT ![1] =
                            [pc |-> "done", body |-> body, db |-> db, res |-> h.res]]
    /\ UNCHANGED <<DATABASE, pending, disk, result, sheets>>

\* backend.js, the throttle: requests of any client, one handled at a time, the
\* time between two arrivals from a millisecond to LIMIT_MS

SpamBodies ==
    [action : {"castVote"}, walletAddress : {Str(<<"0", "x", "a">>), Str(<<"0", "x", "b">>)},
     electionId : {Str(<<"1">>)}, candidateId : {Str(<<"1">>), Undefined},
     name : {Undefined}, idNumber : {Undefined}]
    \cup {[NoBody EXCEPT !.action = a] : a \in {"createElection"} \cup UnsupportedActions}

Gaps == {1, LIMIT_MS - 1, LIMIT_MS}

\* a request arrives at now + dt and is answered before the next one arrives
ServeSpam ==
    /\ served < MaxCalls
    /\ served' = served + 1
    /\ \E body \in SpamBodies, dt \in Gaps :
        LET accepted == antiSpamAt(lastCall, body.action, now + dt)
            h == handle(file, body)
        IN  /\ now' = now + dt
            /\ lastCall' = recordCall(lastCall, body.action, now + dt, accepted)
            /\ file' = IF accepted THEN served1(file, body) ELSE file
            /\ sheets' = appendToSheet(sheets,
                            Appends(body, IF accepted THEN h.next ELSE "refused"))
            /\ reqs' = [reqs EXCEPT ![1] =
                    [pc |-> "done", body |-> body,
                     db |-> IF accepted THEN served1(file, body) ELSE file,
                     res |-> IF accepted THEN respond(h.res, sheets') ELSE TooMany]]
    /\ UNCHANGED <<DATABASE, pending, disk, result>>

SpecSpam == InitAlone /\ [][ServeSpam]_vars

InitActivity ==
    /\ DATABASE = FreshDatabase
    /\ disk = <<FreshDatabase>>
    /\ pending = {}
    /\ result = Ok("init")
    /\ served = 0
    /\ file = DEFAULT_DB
    /\ reqs = [r \in ReqIds |-> [pc |-> "done", body |-> NoBody, db |-> DEFAULT_DB,
                                 res |-> NoRes]]
    /\ lastCall = [a \in BActions \cup {"getChartData"} |-> 0]
    /\ now = DayMs
    /\ sheets = NoSheets

SpecActivity == InitActivity /\ [][ServeActivity]_vars

\* the listing of the active elections, for elections created with every
\* window and listed at every time
InitActive ==
    /\ \E sd \in [1..Len(PolledDatabase.elections) -> Dates],
          ed \in [1..Len(PolledDatabase.elections) -> Dates] :
            /\ DATABASE = withWindows(PolledDatabase, sd, ed)
            /\ disk = <<withWindows(PolledDatabase, sd, ed)>>
    /\ pending = {}
    /\ result = Ok("init")
    /\ served = 0
    /\ file = DEFAULT_DB
    /\ reqs = [r \in ReqIds |-> [pc |-> "done", body |-> NoBody, db |-> DEFAULT_DB,
                                 res |-> NoRes]]
    /\ lastCall = [a \in BActions |-> 0]
    /\ now \in Times
    /\ sheets = NoSheets

GetActiveElections == Call(getActiveElections(DATABASE))

SpecActive == InitActive /\ [][GetActiveElections]_vars

\* the recomputation of the tallies, applied to a database whose derived fields
\* hold arbitrary earlier values
InitTally ==
    /\ \E cv \in [1..Len(PolledDatabase.candidates) -> CachedVotes],
          cp \in [1..Len(PolledDatabase.candidates) -> CachedPercentages],
          tv \in [1..Len(PolledDatabase.elections) -> CachedVotes] :
            DATABASE = withCaches(PolledDatabase, cv, cp, tv)
    /\ disk = <<PolledDatabase>>
    /\ pending = {}
    /\ result = Ok("init")
    /\ served = 0
    /\ InitBackendIdle

\* updateCandidateVotes and updateElectionTotalVotes run for one electionId,
\* that of an election or one past the last
UpdateTallies ==
    \E electionId \in 1..(Len(DATABASE.elections) + 1) :
        Call([db |-> updateTallies(DATABASE, electionId), res |-> Ok("updateTallies"),
              saved |-> FALSE])

SpecTally == InitTally /\ [][UpdateTallies]_vars

\* backend.js, requests interleaving at their awaits
InitB == InitServerIdle /\ InitBackend

NextB == Tick \/ \E r \in ReqIds : Arrive(r) \/ ReadDB(r) \/ WriteDB(r) \/ WriteDB2(r)

SpecBackend == InitB /\ [][NextB]_vars

\* backend.js started on the file earlier requests left
InitBackendPolled ==
    /\ file = PolledFile
    /\ reqs = [r \in ReqIds |-> [pc |-> "new", body |-> NoBody, db |-> DEFAULT_DB,
                                 res |-> NoRes]]
    /\ lastCall = [a \in BActions |-> 0]
    /\ now = 1
    /\ sheets = NoSheets

InitBPolled == InitServerIdle /\ InitBackendPolled

SpecBackendPolled == InitBPolled /\ [][NextB]_vars

\* backend.js on that file, reads and writes of the file taken one by one
SpecTorn == InitBPolled /\ [][NextTorn]_vars

----------------------------------------------------------------------------
(* Properties of server.js.  The helpers below restate what the claims     *)
(* speak of directly on the collections, without the operators the         *)
(* operations are built from.                                              *)

Votes == DATABASE.votes
Candidates == DATABASE.candidates
Elections == DATABASE.elections
Voters == DATABASE.voters
Chain == DATABASE.blockchain
Audit == DATABASE.audit

\* the wallet of a request or of a record, lower-cased and trimmed
Canon(s) == trim(toLowerCase(s))

VotesOf(e) == {i \in 1..Len(Votes) : Votes[i].electionId = e}
VotesFor(e, c) == {i \in VotesOf(e) : Votes[i].candidateId = c}
CandidatesOf(e) == {i \in 1..Len(Candidates) : Candidates[i].electionId = e}

RECURSIVE SumCandidateVotes(_)
SumCandidateVotes(S) ==
    IF S = {} THEN 0
    ELSE LET i == CHOOSE x \in S : TRUE
         IN  Candidates[i].votes + SumCandidateVotes(S \ {i})

\* wallet w and electionId e of a request name a pair that already has a vote
PairHasVote(w, e) ==
    /\ w.t = "string"
    /\ ~parseInt(e).nan
    /\ \E i \in 1..Len(Votes) :
        /\ Votes[i].electionId = parseInt(e).n
        /\ Canon(Votes[i].walletAddress) = Canon(w.s)

VoteData(w, e, c) == [walletAddress |-> w, electionId |-> e, candidateId |-> c]

\* a call left votes, candidates' tallies and elections' totals as they were
TalliesKept(db) ==
    /\ db.votes = Votes
    /\ db.candidates = Candidates
    /\ db.elections = Elections

\* C1: DATABASE.votes holds at most one vote per (lower-cased, trimmed wallet,
\* electionId) pair in every state the four ledger operations reach.
C1_OneVotePerWalletAndElection ==
    \A i, j \in 1..Len(Votes) :
        (/\ Canon(Votes[i].walletAddress) = Canon(Votes[j].walletAddress)
         /\ Votes[i].electionId = Votes[j].electionId) => i = j

\* two wallets have voted and a second vote of one of them has just been refused
C1_Witness ==
    /\ Len(Votes) >= 2
    /\ result = Fail("recordVote", ErrAlreadyVoted)

\* C2 as stated: a recordVote for a pair that already has a vote is refused as
\* already voted whatever the candidateId, and changes no vote and no tally.
C2_AsStated ==
    \A w \in VoteWalletInputs, e \in IdInputs :
        PairHasVote(w, e) =>
            \A c \in IdInputs :
                LET r == recordVote(DATABASE, VoteData(w, e, c))
                IN  /\ r.res = Fail("recordVote", ErrAlreadyVoted)
                    /\ TalliesKept(r.db)

\* C2 amended: such a call is always refused and changes no vote and no tally;
\* the refusal is "already voted" when candidateId parses to a non-zero number
\* and "incomplete data" when it is absent, zero or not a number.
C2_DuplicateVoteRefused ==
    \A w \in VoteWalletInputs, e \in IdInputs :
        PairHasVote(w, e) =>
            \A c \in IdInputs :
                LET r == recordVote(DATABASE, VoteData(w, e, c))
                IN  /\ r.res = Fail("recordVote",
                                    IF Falsy(parseInt(c)) THEN ErrVoteIncomplete
                                    ELSE ErrAlreadyVoted)
                    /\ TalliesKept(r.db)

\* a wallet that has voted asked again and was refused as already voted
C2_Witness ==
    /\ result = Fail("recordVote", ErrAlreadyVoted)
    /\ Len(Votes) >= 1
    /\ Audit[Len(Audit)].action = "recordVote"

\* C3: for every election the candidates' votes sum to election.totalVotes, which
\* is the number of votes with that electionId, and each candidate.votes is the
\* number of votes with that (electionId, candidateId).
C3_TalliesMatchVotes ==
    \A k \in 1..Len(Elections) :
        LET e == Elections[k].electionId
        IN  /\ SumCandidateVotes(CandidatesOf(e)) = Elections[k].totalVotes
            /\ Elections[k].totalVotes = Cardinality(VotesOf(e))
            /\ \A i \in CandidatesOf(e) :
                Candidates[i].votes = Cardinality(VotesFor(e, Candidates[i].candidateId))

\* an election with votes for two of its candidates, and votes in another election
C3_Witness ==
    \E k \in 1..Len(Elections) :
        LET e == Elections[k].electionId
        IN  /\ \E i, j \in CandidatesOf(e) :
                i # j /\ Candidates[i].votes >= 1 /\ Candidates[j].votes >= 1
            /\ Cardinality(VotesOf(e)) < Len(Votes)

IsElection(e) == \E k \in 1..Len(Elections) : Elections[k].electionId = e
IsCandidateOf(e, c) == \E i \in CandidatesOf(e) : Candidates[i].candidateId = c

\* C4: recordVote for an electionId that names no election, or a candidateId that
\* is no candidate of that election, fails and appends no vote; so every vote
\* names an existing election and a candidate of that same election.
C4_VotesReferenceElectionAndCandidate ==
    /\ \A e, c \in IdInputs :
        (\/ parseInt(e).nan
         \/ parseInt(c).nan
         \/ ~IsElection(parseInt(e).n)
         \/ ~IsCandidateOf(parseInt(e).n, parseInt(c).n)) =>
            \A w \in VoteWalletInputs :
                LET r == recordVote(DATABASE, VoteData(w, e, c))
                IN  ~r.res.success /\ r.db.votes = Votes
    /\ \A i \in 1..Len(Votes) :
        /\ IsElection(Votes[i].electionId)
        /\ IsCandidateOf(Votes[i].electionId, Votes[i].candidateId)

\* a vote for a candidate number that exists only in another election was refused
C4_Witness ==
    /\ result = Fail("recordVote", ErrCandidateNotFound)
    /\ Len(Votes) >= 1
    /\ \E e1, e2 \in 1..Len(Elections) :
        Cardinality(CandidatesOf(Elections[e1].electionId))
            < Cardinality(CandidatesOf(Elections[e2].electionId))

\* C5: registerVoter for a wallet already registered (case-insensitively, after
\* trimming) returns success=false and leaves DATABASE.voters unchanged; no two
\* voters share a normalized wallet.
C5_OneVoterPerWallet ==
    /\ \A w \in WalletInputs :
        (/\ w.t = "string"
         /\ \E i \in 1..Len(Voters) : Canon(Voters[i].walletAddress) = Canon(w.s)) =>
            \A n, id \in TextInputs :
                LET r == registerVoter(DATABASE, [walletAddress |-> w, name |-> n,
                                                  idNumber |-> id])
                IN  ~r.res.success /\ r.db.voters = Voters
    /\ \A i, j \in 1..Len(Voters) :
        Canon(Voters[i].walletAddress) = Canon(Voters[j].walletAddress) => i = j

\* two voters are registered and a registration of a registered wallet was refused
C5_Witness ==
    /\ Len(Voters) >= 2
    /\ result = Fail("registerVoter", ErrVoterExists)

\* C9: the entry at position i of DATABASE.blockchain (counting from 0) has
\* blockNumber i, for entries of logBlockchain and of the verify-signature route.
C9_BlockNumbersAreGapFree ==
    \A i \in 1..Len(Chain) : Chain[i].blockNumber = i - 1

\* a signature entry lies between the genesis block and an entry of logBlockchain
C9_Witness ==
    \E i, j \in 1..Len(Chain) :
        /\ 1 < i
        /\ i < j
        /\ Chain[1].action = "GENESIS"
        /\ Chain[i].action = "EIP712_SIGNATURE"
        /\ Chain[j].action \in {"registerVoter", "createElection", "addCandidate", "castVote"}

LedgerOps == {"registerVoter", "createElection", "addCandidate", "recordVote"}

Ledger(db) == <<db.voters, db.elections, db.candidates, db.votes>>

\* what one ledger call did to the audit log and to the block log
AuditedStep ==
    LET entry == DATABASE'.audit[Len(DATABASE'.audit)]
    IN  /\ Len(DATABASE'.audit) = Len(Audit) + 1
        /\ SubSeq(DATABASE'.audit, 1, Len(Audit)) = Audit
        /\ result'.success <=> Ledger(DATABASE') # Ledger(DATABASE)
        /\ result'.success =>
            /\ entry.status = "success"
            /\ Len(DATABASE'.blockchain) = Len(Chain) + 1
        /\ ~result'.success =>
            /\ entry.status = "error"
            /\ entry.error = result'.error
            /\ entry.error # ""
            /\ DATABASE'.blockchain = Chain

\* C10: every registerVoter, createElection, addCandidate or recordVote call
\* appends exactly one audit entry, 'success' exactly when the call changed the
\* ledger and returned success=true, else 'error' with the error message; the
\* block log grows only on success.
C10_EveryCallIsAudited ==
    [][(served' # served /\ result'.op \in LedgerOps) => AuditedStep]_vars

\* the audit log holds a success entry followed by the error entry of a refused call
C10_Witness ==
    /\ result.op \in LedgerOps
    /\ ~result.success
    /\ Len(Audit) >= 2
    /\ Audit[Len(Audit)].status = "error"
    /\ Audit[Len(Audit)].error = result.error
    /\ Audit[Len(Audit) - 1].status = "success"

----------------------------------------------------------------------------
(* Properties of the whole service of server.js and of backend.js.         *)

\* C8: once a vote is appended it stays in the vote log, at its position and
\* unchanged, under every operation the service exposes, 'init' and /import
\* included
C8_VotesAreNeverRemoved ==
    [][\A i \in 1..Len(DATABASE.votes) :
          /\ i <= Len(DATABASE'.votes)
          /\ DATABASE'.votes[i] = DATABASE.votes[i]]_vars

\* request r has answered success to the given action
Succeeded(r, action) ==
    /\ reqs[r].pc = "done"
    /\ reqs[r].body.action = action
    /\ reqs[r].res.success

\* C6: of two castVote requests for the same wallet and election, at most one
\* answers success
C6_AtMostOneCastVoteSucceeds ==
    ~ \E r1, r2 \in ReqIds :
        /\ r1 # r2
        /\ Succeeded(r1, "castVote")
        /\ Succeeded(r2, "castVote")
        /\ reqs[r1].body.walletAddress = reqs[r2].body.walletAddress
        /\ reqs[r1].body.electionId = reqs[r2].body.electionId

\* the record request r reported is in the file
InFile(r) ==
    LET rec == Head(reqs[r].res.record)
        action == reqs[r].body.action
    IN  CASE action = "registerVoter" ->
                \E i \in 1..Len(file.voters) : file.voters[i].Wallet = rec.Wallet
          [] action = "createElection" ->
                \E i \in 1..Len(file.elections) : file.elections[i].ElectionID = rec.ElectionID
          [] action = "addCandidate" ->
                \E i \in 1..Len(file.candidates) :
                    file.candidates[i].CandidateID = rec.CandidateID
          [] action = "castVote" ->
                \E i \in 1..Len(file.votes) :
                    /\ file.votes[i].Wallet = rec.Wallet
                    /\ file.votes[i].ElectionID = rec.ElectionID
          [] action = "getResults" -> TRUE

\* no request is between its arrival and its response
NoneInFlight == \A r \in ReqIds : reqs[r].pc \in {"new", "done"}

\* C7: once the requests in flight have finished, the persisted database holds
\* the record of every request that answered success, whatever the other
\* requests wrote
C7_SuccessfulMutationsStayPersisted ==
    NoneInFlight =>
        \A r \in ReqIds : (reqs[r].pc = "done" /\ reqs[r].res.success) => InFile(r)

----------------------------------------------------------------------------
(* Persistence of server.js.                                               *)

\* C11: when a successful registerVoter, createElection, addCandidate or
\* recordVote returns its result, the file already holds the database with
\* that mutation
C11_FlushedBeforeReturn ==
    [][(served' # served /\ result'.op \in LedgerOps /\ result'.success)
          => disk' = <<DATABASE'>>]_vars

\* C12: a write of saveDatabase that fails changes neither DATABASE nor the
\* response the operation gave: the mutation stays in memory and the caller
\* has been told success
C12_FailedWriteKeepsMutation ==
    [][(served' = served /\ pending' # pending /\ disk' = disk)
          => (DATABASE' = DATABASE /\ result' = result)]_vars

\* the only write of the run has failed: the successful call's mutation is in
\* DATABASE and not in the file
C12_Witness ==
    /\ served = 1
    /\ result.op \in LedgerOps
    /\ result.success
    /\ pending = {}
    /\ disk # <<DATABASE>>

\* C13: started on a data file that is absent, unparseable or parseable without
\* the collections, initializeSystem succeeds and the system is the fresh one
\* (empty collections, the genesis block), on which the calls then work
C13_DamagedFileStartsFresh ==
    /\ HasCollections(DATABASE)
    /\ served = 0 => (result = Ok("init") /\ DATABASE = FreshDatabase)

----------------------------------------------------------------------------
(* Identifiers.                                                            *)

\* C14: in every election the candidateIds are pairwise distinct and are
\* exactly 1..n for its n candidates, whatever the other elections hold
C14_CandidateIdsDensePerElection ==
    \A k \in 1..Len(Candidates) :
        LET own == CandidatesOf(Candidates[k].electionId)
        IN  /\ {Candidates[i].candidateId : i \in own} = 1..Cardinality(own)
            /\ \A i, j \in own : Candidates[i].candidateId = Candidates[j].candidateId => i = j

\* a candidate has just been added while two elections have candidates
C14_Witness ==
    /\ result = Ok("addCandidate")
    /\ \E i, j \in 1..Len(Candidates) :
        /\ Candidates[i].electionId # Candidates[j].electionId
        /\ Candidates[i].candidateId = Candidates[j].candidateId
    /\ \E i \in 1..Len(Candidates) : Candidates[i].candidateId > 1

\* C15: createElection numbers the election one past the largest electionId,
\* so no two elections share an electionId in any state reached through the
\* operations, a database loaded from the file or put in place by /import
\* included
C15_ElectionIdsAreUnique ==
    /\ \A i, j \in 1..Len(Elections) :
        Elections[i].electionId = Elections[j].electionId => i = j
    /\ (result = Ok("createElection") =>
            \A i \in 1..(Len(Elections) - 1) :
                Elections[i].electionId < Elections[Len(Elections)].electionId)

----------------------------------------------------------------------------
(* Tallies.                                                                *)

\* the derived fields of one election: votes and percentage of its candidates,
\* totalVotes of the election
TallyOf(db, e) ==
    [candidates |->
        [i \in {k \in 1..Len(db.candidates) : db.candidates[k].electionId = e} |->
            <<db.candidates[i].votes, db.candidates[i].percentage>>],
     elections |->
        [i \in {k \in 1..Len(db.elections) : db.elections[k].electionId = e} |->
            db.elections[i].totalVotes]]

\* the database with every derived field at its initial value
Zeroed(db) ==
    withCaches(db, [i \in 1..Len(db.candidates) |-> 0],
                   [i \in 1..Len(db.candidates) |-> Percentage(0, 0)],
                   [i \in 1..Len(db.elections) |-> 0])

\* C16: the recomputation of an election's tallies is idempotent and depends on
\* the votes only: run twice it gives what it gives run once, and run on
\* arbitrary cached values it gives what it gives on zeroed caches
C16_TallyRecomputationIsPure ==
    \A e \in 1..(Len(Elections) + 1) :
        LET once == updateTallies(DATABASE, e)
        IN  /\ updateTallies(once, e) = once
            /\ TallyOf(once, e) = TallyOf(updateTallies(Zeroed(DATABASE), e), e)

\* the first election has been recomputed from caches that were wrong, the
\* second still holds a stale total
C16_Witness ==
    /\ result = Ok("updateTallies")
    /\ Elections[1].totalVotes = Cardinality(VotesOf(1))
    /\ \A i \in CandidatesOf(1) :
        Candidates[i].votes = Cardinality(VotesFor(1, Candidates[i].candidateId))
    /\ \E i \in CandidatesOf(1) : Candidates[i].votes > 0
    /\ Elections[2].totalVotes # Cardinality(VotesOf(2))

RECURSIVE SumHundredths(_)
SumHundredths(S) ==
    IF S = {} THEN 0
    ELSE LET i == CHOOSE x \in S : TRUE
         IN  Candidates[i].percentage.hundredths + SumHundredths(S \ {i})

\* h hundredths of a percent is votes / totalVotes * 100 rounded to two decimals
IsRoundedShare(h, votes, totalVotes) ==
    /\ 2 * (h * totalVotes - 10000 * votes) <= totalVotes
    /\ 2 * (10000 * votes - h * totalVotes) <= totalVotes

\* C17: in an election with votes each candidate's percentage is its share of
\* the votes rounded to two decimals and the percentages add up to 100 within
\* 0.01 per candidate; in an election without votes every percentage is 0
C17_PercentagesAreRoundedShares ==
    \A k \in 1..Len(Elections) :
        LET e == Elections[k].electionId
            own == CandidatesOf(e)
            total == Elections[k].totalVotes
        IN  IF total > 0
            THEN /\ \A i \in own :
                        IsRoundedShare(Candidates[i].percentage.hundredths,
                                       Candidates[i].votes, total)
                 /\ own # {} => /\ SumHundredths(own) - 10000 <= Cardinality(own)
                                /\ 10000 - SumHundredths(own) <= Cardinality(own)
            ELSE \A i \in own : Candidates[i].percentage.hundredths = 0

\* a vote has just given three candidates a third of the votes each: the
\* percentages add up to 99.99
C17_Witness ==
    /\ result = Ok("recordVote")
    /\ \E k \in 1..Len(Elections) :
        /\ Elections[k].totalVotes = 3
        /\ SumHundredths(CandidatesOf(Elections[k].electionId)) = 9999

----------------------------------------------------------------------------
(* Read operations.                                                        *)

\* C18: getResults answers failure for an election that does not exist, and
\* otherwise lists the election's candidates by votes descending, candidates
\* with equal votes in the order they were added (their ids ascend in it)
C18_ResultsAreSortedByVotes ==
    \A r \in ReqIds :
        (reqs[r].pc = "done" /\ reqs[r].body.action = "getResults" /\ reqs[r].res.status = 200) =>
            LET list == reqs[r].res.record
            IN  IF reqs[r].res.success
                THEN \A i, j \in 1..Len(list) :
                        i < j => \/ list[i].votes > list[j].votes
                                 \/ (list[i].votes = list[j].votes /\ list[i].name < list[j].name)
                ELSE reqs[r].body.electionId # Str(<<"1">>)

\* the time a date denotes
TimeOf(date) == DigitsPrefix(date, 0)

\* the election's window contains time t; an absent date does not bound it
InWindow(e, t) ==
    /\ e.startDate = <<>> \/ TimeOf(e.startDate) <= t
    /\ e.endDate = <<>> \/ t <= TimeOf(e.endDate)

\* C19: getActiveElections returns exactly the elections whose window contains
\* the current time
C19_ActiveElectionsAreInWindow ==
    result.op = "getActiveElections" =>
        \A k \in 1..Len(Elections) :
            (\E i \in 1..Len(result.elections) : result.elections[i] = Elections[k].electionId)
                <=> InWindow(Elections[k], now)

\* C20: every response of GET /api and POST /api carries a boolean success
C20_EveryResponseCarriesSuccess ==
    /\ "success" \in DOMAIN result
    /\ result.success \in BOOLEAN

\* the candidates getResults of server.js returns are in descending order of votes
ServerResultsAreSorted ==
    (result.op = "getResults" /\ "success" \in DOMAIN result /\ result.success) =>
        \A i, j \in 1..Len(result.candidates) :
            i < j => result.candidates[i].votes >= result.candidates[j].votes

\* the last request handled by backend.js and its answer
LastBody == reqs[1].body
LastRes == reqs[1].res

\* C21: registerVoter adds no voter and fails when name or idNumber is absent or
\* when the wallet is not 0x followed by 40 hex digits; here for the handler of
\* backend.js
C21_RegisterVoterValidates ==
    (LastBody.action = "registerVoter" /\ LastRes.status = 200 /\ LastRes.success) =>
        /\ ~Missing(LastBody.name)
        /\ ~Missing(LastBody.idNumber)
        /\ MatchesWallet(LastBody.walletAddress.s)

\* what createElection does with data in the current state, against what the
\* admin address has to be for the call to succeed
ElectionGated(data, isAdmin) ==
    LET r == createElection(DATABASE, data)
        entitled ==
            /\ data.title.t = "string"
            /\ trim(data.title.s) # <<>>
            /\ data.adminAddress.t = "string"
            /\ data.adminAddress.s # <<>>
            /\ isAdmin
    IN  IF r.res.success
        THEN /\ entitled
             /\ Len(r.db.elections) = Len(Elections) + 1
             /\ SubSeq(r.db.elections, 1, Len(Elections)) = Elections
             /\ r.db.elections[Len(r.db.elections)].status = "Activa"
             /\ r.db.elections[Len(r.db.elections)].totalVotes = 0
        ELSE r.db.elections = Elections

\* C22 as stated: createElection succeeds only with a non-empty title and a
\* lower-cased adminAddress that is in the admin list
C22_AsStated ==
    \A data \in ElectionInputs :
        ElectionGated(data, toLowerCase(data.adminAddress.s) \in ADMIN_ADDRESSES)

\* C22 amended: createElection succeeds only when the trimmed title is not empty
\* and the adminAddress, lower-cased and trimmed, is not empty and is in the admin
\* list; a failing call leaves elections unchanged, a successful one appends one
\* election with status active and totalVotes 0
C22_CreateElectionIsGated ==
    \A data \in ElectionInputs :
        ElectionGated(data, /\ Canon(data.adminAddress.s) # <<>>
                            /\ Canon(data.adminAddress.s) \in ADMIN_ADDRESSES)

\* an election exists and a later call by an address that is no admin was refused
C22_Witness ==
    /\ result = Fail("createElection", ErrNotAdmin)
    /\ Len(Elections) >= 1
    /\ <<>> \in ADMIN_ADDRESSES

\* C24: recordVote checks the parameters, then the election and its candidate,
\* then the earlier vote: a wallet that has voted in the election and names a
\* candidate the election does not have is refused as candidate-not-found
C24_CandidateCheckedBeforeDuplicate ==
    \A w \in VoteWalletInputs, e \in IdInputs, c \in IdInputs :
        (/\ PairHasVote(w, e)
         /\ ~Falsy(parseInt(c))
         /\ ~IsCandidateOf(parseInt(e).n, parseInt(c).n)) =>
            recordVote(DATABASE, VoteData(w, e, c)).res = Fail("recordVote", ErrCandidateNotFound)

\* C23: addCandidate fails and adds no candidate when electionId names no
\* election, so every candidate's election exists; here for the file of backend.js
C23_CandidatesNameAnElection ==
    \A i \in 1..Len(file.candidates) :
        \E k \in 1..Len(file.elections) :
            file.elections[k].ElectionID = file.candidates[i].ElectionID

ReadOps == {"getActiveElections", "getCandidates", "getResults", "getStats"}

\* C25: a read action, answered with success or with failure, leaves DATABASE as
\* it was and hands nothing to the file
C25_ReadsChangeNothing ==
    [][(served' # served /\ result'.op \in ReadOps) =>
            (DATABASE' = DATABASE /\ pending' = pending /\ disk' = disk)]_vars

\* getStats answered while DATABASE.stats was out of date, and left it so
C25_Witness ==
    /\ served >= 2
    /\ result.op = "getStats"
    /\ result.success
    /\ DATABASE.stats # result.stats

\* C26: the answer to a mutating request and the database it writes are those the
\* request and the file determine, whatever the Sheets collaborator does, and the
\* answer is there when the request's step ends, with calls still unanswered
C26_SheetsNeverMatter ==
    [][served' # served =>
        LET body == reqs'[1].body
            accepted == ~(lastCall[body.action] # 0 /\ now - lastCall[body.action] < LIMIT_MS)
        IN  /\ reqs'[1].pc = "done"
            /\ reqs'[1].res = IF accepted THEN handle(file, body).res ELSE TooMany
            /\ file' = IF accepted THEN servedAll(file, <<body>>) ELSE file]_vars

\* a vote was cast and answered while the collaborator never answers
C26_Witness ==
    /\ sheets.mode = "stalled"
    /\ sheets.unanswered > 0
    /\ LastBody.action = "castVote"
    /\ LastRes.status = 200
    /\ LastRes.success
    /\ Len(file.votes) >= 1

\* C27: with requests handled one at a time, the file never holds two votes with
\* the same lower-cased wallet and the same numeric ElectionID, however the
\* requests write the election id ("1", "01")
C27_OneVotePerWalletAndNumber ==
    \A i, j \in 1..Len(file.votes) :
        (/\ toLowerCase(file.votes[i].Wallet) = toLowerCase(file.votes[j].Wallet)
         /\ file.votes[i].ElectionID = file.votes[j].ElectionID) => i = j

\* the votes of the file for an election, and those for one of its candidates
FileVotesOf(e) == {i \in 1..Len(file.votes) : file.votes[i].ElectionID = e}
FileVotesFor(e, c) == {i \in FileVotesOf(e) : file.votes[i].CandidateID = c}

RECURSIVE SumFileVotes(_)
SumFileVotes(S) ==
    IF S = {} THEN 0
    ELSE LET i == CHOOSE x \in S : TRUE
         IN  file.candidates[i].Votes + SumFileVotes(S \ {i})

\* C28: with requests handled one at a time, every candidate's Votes is the number
\* of votes with its CandidateID and ElectionID, and every election's TotalVotes is
\* the number of votes with its ElectionID and the sum of its candidates' Votes
C28_FileTalliesMatchVotes ==
    /\ \A i \in 1..Len(file.candidates) :
        file.candidates[i].Votes =
            Cardinality(FileVotesFor(file.candidates[i].ElectionID,
                                     file.candidates[i].CandidateID))
    /\ \A k \in 1..Len(file.elections) :
        LET e == file.elections[k].ElectionID
        IN  /\ file.elections[k].TotalVotes = Cardinality(FileVotesOf(e))
            /\ file.elections[k].TotalVotes =
                    SumFileVotes({i \in 1..Len(file.candidates) :
                                    file.candidates[i].ElectionID = e})

\* the election and the candidate a castVote request names exist in db, the
\* candidate in that election
NamesCandidate(db, body) ==
    \E i \in 1..Len(db.candidates), k \in 1..Len(db.elections) :
        /\ db.elections[k].ElectionID = Number(body.electionId)
        /\ db.candidates[i].ElectionID = Number(body.electionId)
        /\ db.candidates[i].CandidateID = Number(body.candidateId)

\* C29: a castVote request that names no election, or a candidate the election
\* does not have, is answered with success=false and appends no vote
C29_VoteNeedsElectionAndCandidate ==
    [][(served' # served /\ reqs'[1].body.action = "castVote"
            /\ ~NamesCandidate(file, reqs'[1].body)) =>
        (~reqs'[1].res.success /\ file'.votes = file.votes)]_vars

\* C30: a request that reads the database while another request's writeDB is in
\* progress never makes the file the empty default database
C30_ReadNeverResetsTheFile ==
    [][file' = DEFAULT_DB => file = DEFAULT_DB]_vars

\* C31: when the last call was a successful mutation and every write started by
\* saveDatabase has finished, the file holds the current DATABASE, in whatever
\* order the writes finished
C31_SettledFileIsCurrent ==
    (pending = {} /\ result.op \in LedgerOps /\ result.success) => disk = <<DATABASE>>

GenesisBlocks(db) == {i \in 1..Len(db.blockchain) : db.blockchain[i].action = "GENESIS"}

\* C32: the 'init' action on the running system leaves voters, elections,
\* candidates and votes as they are in memory and adds no second GENESIS block
C32_InitKeepsTheLedger ==
    [][(served' # served /\ result'.op = "init") =>
        /\ DATABASE'.voters = DATABASE.voters
        /\ DATABASE'.elections = DATABASE.elections
        /\ DATABASE'.candidates = DATABASE.candidates
        /\ DATABASE'.votes = DATABASE.votes
        /\ Cardinality(GenesisBlocks(DATABASE')) <= 1]_vars

\* C33: every vote in DATABASE carries the wallet of a registered voter
C33_VotersAreRegistered ==
    \A i \in 1..Len(Votes) :
        \E k \in 1..Len(Voters) : Votes[i].walletAddress = Canon(Voters[k].walletAddress)

\* C34: the participation getChartData reports for every election of the file is
\* at least 0 and at most 100
C34_ParticipationIsAPercentage ==
    LET out == getChartDataParticipation(file)
    IN  \A i \in 1..Len(out) :
            /\ 0 <= out[i].participation.num
            /\ out[i].participation.num <= 100 * out[i].participation.den

\* C35: after a successful registerVoter, createElection, addCandidate or recordVote
\* the totals in DATABASE.stats are the sizes of the four collections
C35_StatsFollowEveryMutation ==
    (result.op \in LedgerOps /\ result.success) => DATABASE.stats = getStats(DATABASE)

\* the entries of db.sysActivity stamped in the same minute as the time t
StampedInMinuteOf(db, t) ==
    {k \in 1..Len(db.sysActivity) : db.sysActivity[k].time \div MinuteMs = t \div MinuteMs}

\* C36: the activity chart has 60 buckets, one for each minute of the last 60
\* minutes, and each holds the number of sysActivity entries stamped in that minute
C36_BucketsCountTheLastHour ==
    LastBody.action = "getChartData" =>
        /\ Len(LastRes.record) = BucketCount
        /\ \A i \in 1..Len(LastRes.record) :
            LET t == now - (BucketCount - i) * MinuteMs
            IN  /\ LastRes.record[i].label = minuteLabel(t)
                /\ LastRes.record[i].count = Cardinality(StampedInMinuteOf(file, t))

Refused(r) == r.res.status = 429
Accepted(r) == r.res.status = 200

\* C37, the refusal: a request antiSpam refuses leaves the file and the window
\* of every action as they were
C37_RefusalTouchesNothing ==
    [][(served' # served /\ Refused(reqs'[1])) => (file' = file /\ lastCall' = lastCall)]_vars

\* C37, the distance: two requests that carry the same action and are both
\* accepted, one after the other, arrive at least LIMIT_MS apart
C37_AcceptedAreApart ==
    [][(served' # served /\ Accepted(reqs[1]) /\ Accepted(reqs'[1])
            /\ reqs'[1].body.action # ""
            /\ reqs'[1].body.action = reqs[1].body.action) =>
        now' - now >= LIMIT_MS]_vars

IdsOf(collection, keyName) == [i \in 1..Len(collection) |-> collection[i][keyName]]

\* the collection is as it was, or one record longer with an id above all earlier ones
GrowsByFreshId(old, new, keyName) ==
    LET a == IdsOf(old, keyName)
        b == IdsOf(new, keyName)
    IN  \/ b = a
        \/ /\ Len(b) = Len(a) + 1
           /\ SubSeq(b, 1, Len(a)) = a
           /\ \A i \in 1..Len(a) : b[Len(b)] > a[i]

\* C38: with requests handled one at a time, every record a request appends to
\* votes, voters, elections or candidates has an id greater than every id the
\* collection already held
C38_IdsIncrease ==
    [][/\ GrowsByFreshId(file.votes, file'.votes, "VoteID")
       /\ GrowsByFreshId(file.voters, file'.voters, "VoterID")
       /\ GrowsByFreshId(file.elections, file'.elections, "ElectionID")
       /\ GrowsByFreshId(file.candidates, file'.candidates, "CandidateID")]_vars

\* a vote was accepted on a file that already held votes, and a candidate has
\* joined earlier ones
C38_Witness ==
    /\ LastBody.action = "castVote"
    /\ LastRes.success
    /\ Len(file.votes) >= 2
    /\ Len(file.candidates) >= 3

====
